---- MODULE Spec2Model ----
(***************************************************************************)
(* Derived Encodable / Decodable conformance (DerivedConformanceCodable).  *)
(*                                                                         *)
(* The state is one nominal type (the target of the derivation), the list  *)
(* of its nested type members that lookupDirect can find under the names   *)
(* CodingKeys and CodingKeys_<case>, the diagnostic stream that has been   *)
(* committed, the witnesses added to the conformance context and the       *)
(* bodies synthesized for them.  deriveEncodable and deriveDecodable are    *)
(* the operations of the gate; the body synthesizers set for a witness run  *)
(* when its body is asked for.                                             *)
(***************************************************************************)
EXTENDS Integers, Sequences, FiniteSets, TLC

VARIABLES target, members, diags, witnesses, last, ncalls, bodies

vars == <<target, members, diags, witnesses, last, ncalls, bodies>>

(***************************************************************************)
(* Bounds of the model.                                                    *)
(***************************************************************************)
MaxCalls == 2
MaxProps == 2
MaxCases == 2
MaxParams == 2
MaxKeys == 2

Encodable == "Encodable"
Decodable == "Decodable"
Protocols == {Encodable, Decodable}

Id_CodingKeys == "CodingKeys"
Id_super == "super"
Id_encode == "encode"
Id_init == "init"

(***************************************************************************)
(* Sequence helpers.                                                       *)
(***************************************************************************)
Range(s) == {s[i] : i \in 1..Len(s)}

NoDup(s) == \A i, j \in 1..Len(s) : i # j => s[i] # s[j]

RECURSIVE SeqsUpTo(_, _)
SeqsUpTo(S, n) ==
  IF n = 0 THEN {<<>>}
  ELSE LET shorter == SeqsUpTo(S, n - 1)
       IN shorter \cup {Append(s, e) : s \in {q \in shorter : Len(q) = n - 1}, e \in S}

SelectFirst(s, P(_)) ==
  LET idx == {i \in 1..Len(s) : P(s[i])}
  IN IF idx = {} THEN 0 ELSE CHOOSE i \in idx : \A j \in idx : i <= j

(***************************************************************************)
(* Diagnostics.  A diagnostic is its id and the declaration it is attached *)
(* to.                                                                     *)
(***************************************************************************)
Diag(k, a) == [kind |-> k, at |-> a]

\* The value of F at v, with v evaluated once.
WithValue(v, F(_)) == CHOOSE out \in {F(x) : x \in {v}} : TRUE

(***************************************************************************)
(* Declarations.  A stored property carries its name, the name of the      *)
(* property it is the wrapper backing storage of ("" when it is none),     *)
(* whether user code can name it, whether its type conforms to each        *)
(* protocol, and where a default value comes from: "none", "pbd" (the      *)
(* pattern binding is default-initializable) or "parent" (an initial       *)
(* value).                                                                 *)
(***************************************************************************)
PropNames == <<"x", "y", "z">>
BackingName == [x |-> "_x", y |-> "_y", z |-> "_z"]

PropKinds ==
  { [wrapped |-> FALSE, ua |-> TRUE,  confEnc |-> TRUE,  confDec |-> TRUE,  dflt |-> "none"],
    [wrapped |-> FALSE, ua |-> TRUE,  confEnc |-> TRUE,  confDec |-> FALSE, dflt |-> "none"],
    [wrapped |-> FALSE, ua |-> TRUE,  confEnc |-> FALSE, confDec |-> FALSE, dflt |-> "parent"],
    [wrapped |-> TRUE,  ua |-> TRUE,  confEnc |-> TRUE,  confDec |-> TRUE,  dflt |-> "pbd"],
    [wrapped |-> FALSE, ua |-> FALSE, confEnc |-> FALSE, confDec |-> FALSE, dflt |-> "none"] }

MkProp(i, k) ==
  [name |-> IF k.wrapped THEN BackingName[PropNames[i]] ELSE PropNames[i],
   orig |-> IF k.wrapped THEN PropNames[i] ELSE "",
   ua |-> k.ua, confEnc |-> k.confEnc, confDec |-> k.confDec, dflt |-> k.dflt]

PropSeqs ==
  {[i \in 1..Len(ks) |-> MkProp(i, ks[i])] : ks \in SeqsUpTo(PropKinds, MaxProps)}

(***************************************************************************)
(* A union case carries its parameters in declaration order; a parameter   *)
(* has its name ("" when it is unnamed), whether its type conforms to      *)
(* each protocol and whether it has a default expression.                  *)
(***************************************************************************)
CaseNames == <<"circle", "square", "pair">>
CaseKeyName == [circle |-> "CodingKeys_circle", square |-> "CodingKeys_square",
                pair |-> "CodingKeys_pair"]

Param(l, e, d, h) ==
  [name |-> l, orig |-> "", ua |-> TRUE, confEnc |-> e, confDec |-> d, hasDefault |-> h]

CaseKinds ==
  { <<>>,
    <<Param("a", TRUE, FALSE, FALSE)>>,
    <<Param("a", TRUE, TRUE, FALSE), Param("b", TRUE, TRUE, TRUE)>>,
    <<Param("a", TRUE, TRUE, FALSE), Param("b", FALSE, FALSE, FALSE)>>,
    <<Param("", TRUE, TRUE, FALSE), Param("", TRUE, TRUE, TRUE)>> }

MkCase(i, ps) == [name |-> CaseNames[i], params |-> ps]

CaseSeqs ==
  {[i \in 1..Len(ks) |-> MkCase(i, ks[i])] : ks \in SeqsUpTo(CaseKinds, MaxCases)}

(***************************************************************************)
(* A member that lookupDirect finds under a key-enum name: an enum, a type *)
(* alias (of an enum, of another nominal type, of a non-nominal type), a   *)
(* struct, or a declaration that is no type at all ("var").                *)
(***************************************************************************)
MemberDecl(n, k, ck, cs, impl) ==
  [name |-> n, kind |-> k, conformsCK |-> ck, cases |-> cs, implicit |-> impl]

NoDecl == MemberDecl("", "none", FALSE, <<>>, FALSE)

UserEnum(n, cs) == MemberDecl(n, "enum", TRUE, cs, FALSE)

\* What a user may declare under the name n besides a well-formed enum.
MalformedDecls(n) ==
  { MemberDecl(n, "var", FALSE, <<>>, FALSE),
    MemberDecl(n, "struct", TRUE, <<>>, FALSE),
    MemberDecl(n, "enum", FALSE, <<"x">>, FALSE),
    MemberDecl(n, "alias_other", FALSE, <<>>, FALSE) }

(***************************************************************************)
(* The superclass of a class: whether it conforms to each protocol, and    *)
(* what the lookup of init(from:) and of init() in it finds: how many      *)
(* results, and the attributes of the initializer when there is one.       *)
(***************************************************************************)
InitDecl(c, d, a, f, t) ==
  [count |-> c, designated |-> d, accessible |-> a, failable |-> f, throws |-> t]

NoInit == InitDecl(0, FALSE, FALSE, FALSE, FALSE)
GoodInit == InitDecl(1, TRUE, TRUE, FALSE, FALSE)

Super(e, d, from, zero) ==
  [has |-> TRUE, confEnc |-> e, confDec |-> d, initFrom |-> from, initZero |-> zero]

NoSuper ==
  [has |-> FALSE, confEnc |-> FALSE, confDec |-> FALSE, initFrom |-> NoInit, initZero |-> NoInit]

SuperShapes ==
  { Super(FALSE, FALSE, NoInit, GoodInit),
    Super(FALSE, FALSE, NoInit, NoInit),
    Super(FALSE, FALSE, NoInit, InitDecl(2, TRUE, TRUE, FALSE, FALSE)),
    Super(FALSE, FALSE, NoInit, InitDecl(1, FALSE, TRUE, FALSE, FALSE)),
    Super(FALSE, FALSE, NoInit, InitDecl(1, TRUE, FALSE, TRUE, FALSE)),
    Super(FALSE, FALSE, NoInit, InitDecl(1, TRUE, TRUE, TRUE, FALSE)),
    Super(TRUE, FALSE, NoInit, InitDecl(1, TRUE, TRUE, FALSE, TRUE)),
    Super(FALSE, TRUE, GoodInit, NoInit),
    Super(TRUE, TRUE, InitDecl(1, TRUE, FALSE, FALSE, TRUE), GoodInit) }

(***************************************************************************)
(* Targets.  Kind "protocol" stands for every nominal type that is neither *)
(* a struct, a class nor an enum.                                          *)
(***************************************************************************)
Target(k, ps, cs, s) == [kind |-> k, props |-> ps, cases |-> cs, super |-> s]

\* Key enums a user may declare in a struct or class, next to none at all.
RecordKeyDecls ==
  MalformedDecls(Id_CodingKeys)
    \cup {UserEnum(Id_CodingKeys, cs) :
            cs \in {<<>>, <<"x">>, <<"y", "x">>, <<"x", "w">>}}
    \cup {MemberDecl(Id_CodingKeys, "alias_enum", TRUE, <<"x">>, FALSE)}

\* A target together with the key-enum members its source declares.
Program(t, ms) == [target |-> t, members |-> ms]

StructPrograms ==
  {Program(Target("struct", ps, <<>>, NoSuper), ms) :
     ps \in PropSeqs, ms \in {<<>>} \cup {<<d>> : d \in RecordKeyDecls}}

ClassPrograms ==
  {Program(Target("class", ps, <<>>, s), <<>>) : ps \in PropSeqs, s \in SuperShapes}
    \cup {Program(Target("class", ps, <<>>, NoSuper), ms) :
             ps \in PropSeqs, ms \in {<<>>, <<UserEnum(Id_CodingKeys, <<"x">>)>>}}

\* The outer CodingKeys a user may declare in an enum, next to none.
UnionOuterDecls ==
  { UserEnum(Id_CodingKeys, <<"circle">>),
    UserEnum(Id_CodingKeys, <<"circle", "bogus">>) }

\* The CodingKeys_circle a user may declare, next to none.
UnionCaseDecls ==
  { MemberDecl(CaseKeyName["circle"], "struct", TRUE, <<>>, FALSE),
    UserEnum(CaseKeyName["circle"], <<>>),
    UserEnum(CaseKeyName["circle"], <<"a">>),
    UserEnum(CaseKeyName["circle"], <<"a", "c">>) }

EnumPrograms ==
  {Program(Target("enum", <<>>, cs, NoSuper), o \o c) :
     cs \in CaseSeqs,
     o \in {<<>>} \cup {<<d>> : d \in UnionOuterDecls},
     c \in {<<>>} \cup {<<d>> : d \in UnionCaseDecls}}

OtherPrograms == {Program(Target("protocol", <<>>, <<>>, NoSuper), <<>>)}

Programs == StructPrograms \cup ClassPrograms \cup EnumPrograms \cup OtherPrograms

(***************************************************************************)
(* Name lookup in the target (lookupDirect): the declarations of that      *)
(* name, in member order.                                                  *)
(***************************************************************************)
lookupDirect(mem, n) == SelectSeq(mem, LAMBDA d : d.name = n)

ConformsTo(v, proto) == IF proto = Encodable THEN v.confEnc ELSE v.confDec

\* superclassConformsTo answering for any superclass, conforming or not.
superclassConformsTo_anySuperclass(t, kpk) ==
  IF t.kind # "class" THEN FALSE
  ELSE t.super.has

superclassConformsTo(t, kpk) ==
  IF t.kind # "class" THEN FALSE
  ELSE IF ~t.super.has THEN FALSE
  ELSE ConformsTo(t.super, kpk)

\* getVarNameForCoding without the look through the property wrapper.
getVarNameForCoding_raw(var) == var.name

getVarNameForCoding(var) == IF var.orig # "" THEN var.orig ELSE var.name

combineIdentifiers(first, second) ==
  IF first = Id_CodingKeys /\ second \in DOMAIN CaseKeyName
  THEN CaseKeyName[second] ELSE "?"

(***************************************************************************)
(* The insertion-ordered map (SmallMapVector) the validators keep: a       *)
(* sequence of <<key, value>> entries.  Assigning to a key that is present *)
(* overwrites the value in place; erasing keeps the order of the rest.     *)
(***************************************************************************)
MapFind(m, k) == SelectFirst(m, LAMBDA e : e.key = k)

MapSet(m, k, v) ==
  LET i == MapFind(m, k)
  IN IF i = 0 THEN Append(m, [key |-> k, val |-> v])
     ELSE [m EXCEPT ![i] = [key |-> k, val |-> v]]

MapErase(m, i) == SubSeq(m, 1, i - 1) \o SubSeq(m, i + 1, Len(m))

RECURSIVE CollectProperties(_, _, _)
CollectProperties(vs, i, m) ==
  IF i > Len(vs) THEN m
  ELSE IF ~vs[i].ua THEN CollectProperties(vs, i + 1, m)
  ELSE CollectProperties(vs, i + 1, MapSet(m, getVarNameForCoding(vs[i]), vs[i]))

\* The loop over the cases of the key enum (lines 91-118, 180-207): the
\* properties left, the diagnostics and whether all were valid.
RECURSIVE ValidateCases(_, _, _, _, _, _)
ValidateCases(keys, i, props, proto, ds, valid) ==
  IF i > Len(keys) THEN [props |-> props, diags |-> ds, valid |-> valid]
  ELSE LET it == MapFind(props, keys[i])
       IN IF it = 0
          THEN ValidateCases(keys, i + 1, props, proto,
                 Append(ds, Diag("codable_extraneous_codingkey_case_here", keys[i])), FALSE)
          ELSE IF ~ConformsTo(props[it].val, proto)
          THEN ValidateCases(keys, i + 1, props, proto,
                 Append(ds, Diag("codable_non_conforming_property_here", props[it].val.name)),
                 FALSE)
          ELSE ValidateCases(keys, i + 1, MapErase(props, it), proto, ds, valid)

\* The loop over the properties the key enum did not cover (lines 127-142,
\* 216-226).  A stored property may be skipped when its pattern binding is
\* default-initializable or it has an initial value, a case parameter when
\* it has a default expression.
RECURSIVE ValidateRemaining(_, _, _, _, _)
ValidateRemaining(props, i, isParam, ds, valid) ==
  IF i > Len(props) THEN [diags |-> ds, valid |-> valid]
  ELSE IF (IF isParam THEN props[i].val.hasDefault
           ELSE props[i].val.dflt = "pbd" \/ props[i].val.dflt = "parent")
  THEN ValidateRemaining(props, i + 1, isParam, ds, valid)
  ELSE ValidateRemaining(props, i + 1, isParam,
         Append(ds, Diag("codable_non_decoded_property_here", props[i].key)), FALSE)

\* The validator requiring a default of the uncovered properties for both
\* protocols.
ValidateAgainst_anyProtocol(vs, isParam, proto, codingKeysDecl) ==
  LET properties == CollectProperties(vs, 1, <<>>)
      r == ValidateCases(codingKeysDecl.cases, 1, properties, proto, <<>>, TRUE)
  IN IF ~r.valid THEN [ok |-> FALSE, diags |-> r.diags]
     ELSE LET q == ValidateRemaining(r.props, 1, isParam, r.diags, TRUE)
          IN [ok |-> q.valid, diags |-> q.diags]

ValidateAgainst(vs, isParam, proto, codingKeysDecl) ==
  LET properties == CollectProperties(vs, 1, <<>>)
      r == ValidateCases(codingKeysDecl.cases, 1, properties, proto, <<>>, TRUE)
  IN IF ~r.valid THEN [ok |-> FALSE, diags |-> r.diags]
     ELSE IF proto = Decodable
     THEN LET q == ValidateRemaining(r.props, 1, isParam, r.diags, TRUE)
          IN [ok |-> q.valid, diags |-> q.diags]
     ELSE [ok |-> TRUE, diags |-> r.diags]

validateCodingKeysEnum(t, proto, codingKeysDecl) ==
  ValidateAgainst(t.props, FALSE, proto, codingKeysDecl)

\* validateCaseCodingKeysEnum without the pass over the parameters the key
\* enum does not cover.
validateCaseCodingKeysEnum_keysOnly(elementDecl, proto, codingKeysDecl) ==
  LET properties == CollectProperties(elementDecl.params, 1, <<>>)
      r == ValidateCases(codingKeysDecl.cases, 1, properties, proto, <<>>, TRUE)
  IN [ok |-> r.valid, diags |-> r.diags]

validateCaseCodingKeysEnum(elementDecl, proto, codingKeysDecl) ==
  ValidateAgainst(elementDecl.params, TRUE, proto, codingKeysDecl)

(***************************************************************************)
(* validateCodingKeysProtocolConformance: the enum behind the declaration  *)
(* (NoDecl when there is none) and the diagnostic emitted.                 *)
(***************************************************************************)
IsTypeDecl(d) == d.kind # "var"

IsEnumBehind(d) == d.kind \in {"enum", "alias_enum"}

\* validateCodingKeysProtocolConformance without the final check that the
\* type is an enum.
validateCodingKeysProtocolConformance_anyType(decl, proto) ==
  IF ~IsTypeDecl(decl)
  THEN [enum |-> NoDecl,
        diags |-> <<Diag("codable_codingkeys_type_is_not_an_enum_here", decl.name)>>]
  ELSE IF ~decl.conformsCK
  THEN [enum |-> NoDecl,
        diags |-> <<Diag("codable_codingkeys_type_does_not_conform_here", decl.name)>>]
  ELSE [enum |-> decl, diags |-> <<>>]

validateCodingKeysProtocolConformance(decl, proto) ==
  IF ~IsTypeDecl(decl)
  THEN [enum |-> NoDecl,
        diags |-> <<Diag("codable_codingkeys_type_is_not_an_enum_here", decl.name)>>]
  ELSE IF ~decl.conformsCK
  THEN [enum |-> NoDecl,
        diags |-> <<Diag("codable_codingkeys_type_does_not_conform_here", decl.name)>>]
  ELSE IF ~IsEnumBehind(decl)
  THEN [enum |-> NoDecl,
        diags |-> <<Diag("codable_codingkeys_type_is_not_an_enum_here", decl.name)>>]
  ELSE [enum |-> decl, diags |-> <<>>]

(***************************************************************************)
(* classifyCodingKeys: the classification and the diagnostics emitted.     *)
(***************************************************************************)
Invalid == "Invalid"
NeedsSynthesizedCodingKeys == "NeedsSynthesizedCodingKeys"
Valid == "Valid"

\* The loop over the cases of an enum target (lines 325-343).
RECURSIVE ClassifyCases(_, _, _, _, _)
ClassifyCases(t, mem, proto, i, needsSynthesis) ==
  IF i > Len(t.cases)
  THEN [cls |-> IF needsSynthesis THEN NeedsSynthesizedCodingKeys ELSE Valid,
        diags |-> <<>>]
  ELSE LET elt == t.cases[i]
           caseCodingKeyId == combineIdentifiers(Id_CodingKeys, elt.name)
           caseCodingKeysDecls == lookupDirect(mem, caseCodingKeyId)
       IN IF caseCodingKeysDecls = <<>>
          THEN ClassifyCases(t, mem, proto, i + 1, TRUE)
          ELSE LET c == validateCodingKeysProtocolConformance(caseCodingKeysDecls[1], proto)
               IN IF c.enum = NoDecl THEN [cls |-> Invalid, diags |-> c.diags]
                  ELSE LET v == validateCaseCodingKeysEnum(elt, proto, c.enum)
                       IN IF ~v.ok THEN [cls |-> Invalid, diags |-> v.diags]
                          ELSE ClassifyCases(t, mem, proto, i + 1, needsSynthesis)

classifyCodingKeys(t, mem, proto) ==
  LET codingKeysDecls == lookupDirect(mem, Id_CodingKeys)
      needsSynthesis == codingKeysDecls = <<>>
      c == IF needsSynthesis THEN [enum |-> NoDecl, diags |-> <<>>]
           ELSE validateCodingKeysProtocolConformance(codingKeysDecls[1], proto)
  IN IF ~needsSynthesis /\ c.enum = NoDecl THEN [cls |-> Invalid, diags |-> c.diags]
     ELSE IF t.kind = "enum" THEN ClassifyCases(t, mem, proto, 1, needsSynthesis)
     ELSE IF needsSynthesis THEN [cls |-> NeedsSynthesizedCodingKeys, diags |-> <<>>]
     ELSE LET v == validateCodingKeysEnum(t, proto, c.enum)
          IN [cls |-> IF v.ok THEN Valid ELSE Invalid, diags |-> v.diags]

(***************************************************************************)
(* Lookups of an evaluated key enum and of a case in it.                   *)
(***************************************************************************)
\* lookupEvaluatedCodingKeysEnum that finds nothing.
lookupEvaluatedCodingKeysEnum_none(mem, identifier) == NoDecl

lookupEvaluatedCodingKeysEnum(mem, identifier) ==
  LET codingKeyDecls == lookupDirect(mem, identifier)
  IN IF codingKeyDecls = <<>> THEN NoDecl
     ELSE IF IsEnumBehind(codingKeyDecls[1]) THEN codingKeyDecls[1]
     ELSE NoDecl

lookupEnumCase(enumDecl, identifier) == identifier \in Range(enumDecl.cases)

hasAnyUnnamedParameters(elementDecl) ==
  \E i \in 1..Len(elementDecl.params) : elementDecl.params[i].name = ""

(***************************************************************************)
(* synthesizeCodingKeysEnum_enum: whether it succeeded, the diagnostics    *)
(* emitted and the members of the target afterwards.                       *)
(***************************************************************************)
ImplicitEnum(n, cs) == MemberDecl(n, "enum", TRUE, cs, TRUE)

\* The loop over the parameters of one case (lines 503-505); add is called
\* only while allConform still holds.
RECURSIVE AddParams(_, _, _, _, _, _)
AddParams(params, j, proto, allConform, cs, ds) ==
  IF j > Len(params) THEN [allConform |-> allConform, cases |-> cs, diags |-> ds]
  ELSE IF ~allConform THEN AddParams(params, j + 1, proto, FALSE, cs, ds)
  ELSE IF ~params[j].ua THEN AddParams(params, j + 1, proto, TRUE, cs, ds)
  ELSE IF ~ConformsTo(params[j], proto)
  THEN AddParams(params, j + 1, proto, FALSE, cs,
         Append(ds, Diag("codable_non_conforming_property_here", params[j].name)))
  ELSE AddParams(params, j + 1, proto, TRUE,
         Append(cs, getVarNameForCoding(params[j])), ds)

\* The loop over the cases of the target (lines 477-512).
RECURSIVE SynthesizeCaseEnums(_, _, _, _, _, _, _)
SynthesizeCaseEnums(t, codingKeysEnum, proto, i, mem, allConform, ds) ==
  IF i > Len(t.cases) THEN [ok |-> allConform, diags |-> ds, members |-> mem]
  ELSE LET elementDecl == t.cases[i]
           enumIdentifier == combineIdentifiers(Id_CodingKeys, elementDecl.name)
       IN IF ~lookupEnumCase(codingKeysEnum, elementDecl.name)
          THEN SynthesizeCaseEnums(t, codingKeysEnum, proto, i + 1, mem, allConform, ds)
          ELSE IF lookupDirect(mem, enumIdentifier) # <<>>
          THEN SynthesizeCaseEnums(t, codingKeysEnum, proto, i + 1, mem, allConform, ds)
          ELSE IF hasAnyUnnamedParameters(elementDecl)
          THEN SynthesizeCaseEnums(t, codingKeysEnum, proto, i + 1, mem, allConform, ds)
          ELSE LET a == AddParams(elementDecl.params, 1, proto, allConform, <<>>, ds)
                   nestedEnum == ImplicitEnum(enumIdentifier, a.cases)
               IN SynthesizeCaseEnums(t, codingKeysEnum, proto, i + 1,
                    Append(mem, nestedEnum), a.allConform, a.diags)

\* synthesizeCodingKeysEnum_enum installing the outer CodingKeys alone.
synthesizeCodingKeysEnum_enum_outerOnly(t, mem, proto) ==
  LET found == lookupEvaluatedCodingKeysEnum(mem, Id_CodingKeys)
      enumDecl == ImplicitEnum(Id_CodingKeys, [i \in 1..Len(t.cases) |-> t.cases[i].name])
  IN [ok |-> TRUE, diags |-> <<>>,
      members |-> IF found = NoDecl THEN Append(mem, enumDecl) ELSE mem]

synthesizeCodingKeysEnum_enum(t, mem, proto) ==
  LET found == lookupEvaluatedCodingKeysEnum(mem, Id_CodingKeys)
      enumDecl == ImplicitEnum(Id_CodingKeys, [i \in 1..Len(t.cases) |-> t.cases[i].name])
      codingKeysEnum == IF found = NoDecl THEN enumDecl ELSE found
      mem1 == IF found = NoDecl THEN Append(mem, enumDecl) ELSE mem
  IN SynthesizeCaseEnums(t, codingKeysEnum, proto, 1, mem1, TRUE, <<>>)

(***************************************************************************)
(* synthesizeCodingKeysEnum.                                               *)
(***************************************************************************)
\* The loop over the stored properties (lines 566-589).
RECURSIVE AddProperties(_, _, _, _, _, _)
AddProperties(vs, i, proto, allConform, cs, ds) ==
  IF i > Len(vs) THEN [allConform |-> allConform, cases |-> cs, diags |-> ds]
  ELSE IF ~vs[i].ua THEN AddProperties(vs, i + 1, proto, allConform, cs, ds)
  ELSE IF ~ConformsTo(vs[i], proto)
  THEN AddProperties(vs, i + 1, proto, FALSE, cs,
         Append(ds, Diag("codable_non_conforming_property_here", vs[i].name)))
  ELSE AddProperties(vs, i + 1, proto, allConform,
         Append(cs, getVarNameForCoding(vs[i])), ds)

\* synthesizeCodingKeysEnum adding the enum to the target before it checks
\* that every property conformed.
synthesizeCodingKeysEnum_installFirst(t, mem, proto) ==
  IF t.kind = "enum" THEN synthesizeCodingKeysEnum_enum(t, mem, proto)
  ELSE LET first == IF superclassConformsTo(t, Encodable) \/ superclassConformsTo(t, Decodable)
                    THEN <<Id_super>> ELSE <<>>
           a == AddProperties(t.props, 1, proto, TRUE, first, <<>>)
       IN [ok |-> a.allConform, diags |-> a.diags,
           members |-> Append(mem, ImplicitEnum(Id_CodingKeys, a.cases))]

synthesizeCodingKeysEnum(t, mem, proto) ==
  IF t.kind = "enum" THEN synthesizeCodingKeysEnum_enum(t, mem, proto)
  ELSE LET first == IF superclassConformsTo(t, Encodable) \/ superclassConformsTo(t, Decodable)
                    THEN <<Id_super>> ELSE <<>>
           a == AddProperties(t.props, 1, proto, TRUE, first, <<>>)
       IN IF ~a.allConform THEN [ok |-> FALSE, diags |-> a.diags, members |-> mem]
          ELSE [ok |-> TRUE, diags |-> a.diags,
                members |-> Append(mem, ImplicitEnum(Id_CodingKeys, a.cases))]

(***************************************************************************)
(* canSynthesize.  The check of the superclass initializer comes first     *)
(* (lines 1996-2053), then classification and, when needed, synthesis.     *)
(***************************************************************************)
\* The superclass check without its test for a failable initializer.
SuperInitCheck_allowsFailable(t, proto, requirement) ==
  IF proto = Decodable /\ t.kind = "class" /\ t.super.has
  THEN LET result == IF ConformsTo(t.super, proto) THEN t.super.initFrom
                     ELSE t.super.initZero
       IN IF result.count = 0
          THEN [ok |-> FALSE, diags |-> <<Diag("decodable_no_super_init_here", "superclass")>>]
          ELSE IF result.count > 1
          THEN [ok |-> FALSE, diags |-> <<>>]
          ELSE IF ~result.designated
          THEN [ok |-> FALSE,
                diags |-> <<Diag("decodable_super_init_not_designated_here", "initializer")>>]
          ELSE IF ~result.accessible
          THEN [ok |-> FALSE,
                diags |-> <<Diag("decodable_inaccessible_super_init_here", "initializer")>>]
          ELSE [ok |-> TRUE, diags |-> <<>>]
  ELSE [ok |-> TRUE, diags |-> <<>>]

\* The superclass check looking up init() whether or not the superclass is
\* Decodable.
SuperInitCheck_alwaysZero(t, proto, requirement) ==
  IF proto = Decodable /\ t.kind = "class" /\ t.super.has
  THEN LET result == t.super.initZero
       IN IF result.count = 0
          THEN [ok |-> FALSE, diags |-> <<Diag("decodable_no_super_init_here", "superclass")>>]
          ELSE IF result.count > 1
          THEN [ok |-> FALSE, diags |-> <<>>]
          ELSE IF ~result.designated
          THEN [ok |-> FALSE,
                diags |-> <<Diag("decodable_super_init_not_designated_here", "initializer")>>]
          ELSE IF ~result.accessible
          THEN [ok |-> FALSE,
                diags |-> <<Diag("decodable_inaccessible_super_init_here", "initializer")>>]
          ELSE IF result.failable
          THEN [ok |-> FALSE,
                diags |-> <<Diag("decodable_super_init_is_failable_here", "initializer")>>]
          ELSE [ok |-> TRUE, diags |-> <<>>]
  ELSE [ok |-> TRUE, diags |-> <<>>]

SuperInitCheck(t, proto, requirement) ==
  IF proto = Decodable /\ t.kind = "class" /\ t.super.has
  THEN LET result == IF ConformsTo(t.super, proto) THEN t.super.initFrom
                     ELSE t.super.initZero
       IN IF result.count = 0
          THEN [ok |-> FALSE, diags |-> <<Diag("decodable_no_super_init_here", "superclass")>>]
          ELSE IF result.count > 1
          THEN [ok |-> FALSE, diags |-> <<>>]
          ELSE IF ~result.designated
          THEN [ok |-> FALSE,
                diags |-> <<Diag("decodable_super_init_not_designated_here", "initializer")>>]
          ELSE IF ~result.accessible
          THEN [ok |-> FALSE,
                diags |-> <<Diag("decodable_inaccessible_super_init_here", "initializer")>>]
          ELSE IF result.failable
          THEN [ok |-> FALSE,
                diags |-> <<Diag("decodable_super_init_is_failable_here", "initializer")>>]
          ELSE [ok |-> TRUE, diags |-> <<>>]
  ELSE [ok |-> TRUE, diags |-> <<>>]

NoClassification == "none"

\* canSynthesize classifying and synthesizing before it looks at the result
\* of the superclass check.
canSynthesize_classifyFirst(t, mem, proto, requirement) ==
  WithValue(SuperInitCheck(t, proto, requirement), LAMBDA s :
    WithValue(classifyCodingKeys(t, mem, proto), LAMBDA c :
      IF c.cls = Invalid
      THEN [ok |-> FALSE, diags |-> c.diags \o s.diags, members |-> mem, superOK |-> s.ok,
            cls |-> c.cls, synth |-> FALSE]
      ELSE IF c.cls = NeedsSynthesizedCodingKeys
      THEN WithValue(synthesizeCodingKeysEnum(t, mem, proto), LAMBDA y :
             [ok |-> y.ok /\ s.ok, diags |-> c.diags \o y.diags \o s.diags,
              members |-> y.members, superOK |-> s.ok, cls |-> c.cls, synth |-> TRUE])
      ELSE [ok |-> s.ok, diags |-> c.diags \o s.diags, members |-> mem, superOK |-> s.ok,
            cls |-> c.cls, synth |-> FALSE]))

canSynthesize(t, mem, proto, requirement) ==
  WithValue(SuperInitCheck(t, proto, requirement), LAMBDA s :
    IF ~s.ok
    THEN [ok |-> FALSE, diags |-> s.diags, members |-> mem, superOK |-> FALSE,
          cls |-> NoClassification, synth |-> FALSE]
    ELSE WithValue(classifyCodingKeys(t, mem, proto), LAMBDA c :
      IF c.cls = Invalid
      THEN [ok |-> FALSE, diags |-> c.diags, members |-> mem, superOK |-> TRUE,
            cls |-> c.cls, synth |-> FALSE]
      ELSE IF c.cls = NeedsSynthesizedCodingKeys
      THEN WithValue(synthesizeCodingKeysEnum(t, mem, proto), LAMBDA y :
             [ok |-> y.ok, diags |-> c.diags \o y.diags, members |-> y.members,
              superOK |-> TRUE, cls |-> c.cls, synth |-> TRUE])
      ELSE [ok |-> TRUE, diags |-> c.diags, members |-> mem, superOK |-> TRUE,
            cls |-> c.cls, synth |-> FALSE]))

(***************************************************************************)
(* The diagnostic transaction: diagnostics emitted while it is open are    *)
(* held back; abort drops them, the end of the scope commits them.         *)
(***************************************************************************)
TransactionCommit(stream, held) == stream \o held

TransactionAbort(stream, held) == stream

\* checkAndDiagnoseDisallowedContext: a disallowed context is diagnosed.
checkAndDiagnoseDisallowedContext(disallowed) ==
  [disallowed |-> disallowed,
   diags |-> IF disallowed THEN <<Diag("cannot_synthesize_in_disallowed_context", "conformance")>>
             ELSE <<>>]

(***************************************************************************)
(* deriveEncodable and deriveDecodable: the witness returned (NoWitness    *)
(* for none), the committed stream and the members afterwards, and what    *)
(* the attempt did.                                                        *)
(***************************************************************************)
NoWitness == ""
Witness_encode == "encode(to:)"
Witness_init == "init(from:)"

Rejected(stream, mem, ds) ==
  [witness |-> NoWitness, stream |-> stream \o ds, members |-> mem, opened |-> FALSE,
   superOK |-> FALSE, cls |-> NoClassification, synth |-> FALSE, attempt |-> <<>>]

Attempted(witness, stream, r, held) ==
  [witness |-> witness, stream |-> stream, members |-> r.members, opened |-> TRUE,
   superOK |-> r.superOK, cls |-> r.cls, synth |-> r.synth, attempt |-> held]

\* deriveEncodable without the abort of the transaction.
deriveEncodable_noAbort(t, mem, stream, requirement, disallowed) ==
  IF t.kind \notin {"struct", "class", "enum"} THEN Rejected(stream, mem, <<>>)
  ELSE IF requirement # Id_encode
  THEN Rejected(stream, mem, <<Diag("broken_encodable_requirement", requirement)>>)
  ELSE IF checkAndDiagnoseDisallowedContext(disallowed).disallowed
  THEN Rejected(stream, mem, checkAndDiagnoseDisallowedContext(disallowed).diags)
  ELSE WithValue(canSynthesize(t, mem, Encodable, requirement), LAMBDA r :
       LET posted == <<Diag("type_does_not_conform", "conformance"),
                       Diag("no_witnesses", requirement)>>
           held == posted \o r.diags
       IN Attempted(IF r.ok THEN Witness_encode ELSE NoWitness,
                    TransactionCommit(stream, held), r, held))

deriveEncodable(t, mem, stream, requirement, disallowed) ==
  IF t.kind \notin {"struct", "class", "enum"} THEN Rejected(stream, mem, <<>>)
  ELSE IF requirement # Id_encode
  THEN Rejected(stream, mem, <<Diag("broken_encodable_requirement", requirement)>>)
  ELSE IF checkAndDiagnoseDisallowedContext(disallowed).disallowed
  THEN Rejected(stream, mem, checkAndDiagnoseDisallowedContext(disallowed).diags)
  ELSE WithValue(canSynthesize(t, mem, Encodable, requirement), LAMBDA r :
       LET posted == <<Diag("type_does_not_conform", "conformance"),
                       Diag("no_witnesses", requirement)>>
           held == posted \o r.diags
       IN IF r.ok THEN Attempted(Witness_encode, TransactionAbort(stream, held), r, held)
          ELSE Attempted(NoWitness, TransactionCommit(stream, held), r, held))

\* deriveDecodable posting the two errors after the attempt instead of before.
deriveDecodable_postLate(t, mem, stream, requirement, disallowed) ==
  IF t.kind \notin {"struct", "class", "enum"} THEN Rejected(stream, mem, <<>>)
  ELSE IF requirement # Id_init
  THEN Rejected(stream, mem, <<Diag("broken_decodable_requirement", requirement)>>)
  ELSE IF checkAndDiagnoseDisallowedContext(disallowed).disallowed
  THEN Rejected(stream, mem, checkAndDiagnoseDisallowedContext(disallowed).diags)
  ELSE WithValue(canSynthesize(t, mem, Decodable, requirement), LAMBDA r :
       LET posted == <<Diag("type_does_not_conform", "conformance"),
                       Diag("no_witnesses", requirement)>>
           held == r.diags \o posted
       IN IF r.ok THEN Attempted(Witness_init, TransactionAbort(stream, held), r, held)
          ELSE Attempted(NoWitness, TransactionCommit(stream, held), r, held))

deriveDecodable(t, mem, stream, requirement, disallowed) ==
  IF t.kind \notin {"struct", "class", "enum"} THEN Rejected(stream, mem, <<>>)
  ELSE IF requirement # Id_init
  THEN Rejected(stream, mem, <<Diag("broken_decodable_requirement", requirement)>>)
  ELSE IF checkAndDiagnoseDisallowedContext(disallowed).disallowed
  THEN Rejected(stream, mem, checkAndDiagnoseDisallowedContext(disallowed).diags)
  ELSE WithValue(canSynthesize(t, mem, Decodable, requirement), LAMBDA r :
       LET posted == <<Diag("type_does_not_conform", "conformance"),
                       Diag("no_witnesses", requirement)>>
           held == posted \o r.diags
       IN IF r.ok THEN Attempted(Witness_init, TransactionAbort(stream, held), r, held)
          ELSE Attempted(NoWitness, TransactionCommit(stream, held), r, held))

(***************************************************************************)
(* Synthesized bodies.  A body is the sequence of its statements (the      *)
(* ASTNodes pushed onto `statements`).  A statement carries the call it     *)
(* makes (op), the expression the call is made on (on), what it encodes or  *)
(* assigns (subject), the key it names (key), the key type of the          *)
(* container it opens (keyedBy), whether the type it passes is an Optional  *)
(* (optionalType), whether it is wrapped in `try`, and for a switch its     *)
(* arms, for a case construction its arguments.                             *)
(***************************************************************************)
Stmt(op, on, subject, key, try) ==
  [op |-> op, on |-> on, subject |-> subject, key |-> key, keyedBy |-> "",
   optionalType |-> FALSE, try |-> try, arms |-> <<>>, args |-> <<>>]

\* What a body synthesizer leaves behind: no body when the compiler stopped
\* in it, the statements and the diagnostics it emitted otherwise.
BodyResult(ok, stmts, ds) == [built |-> TRUE, ok |-> ok, stmts |-> stmts, diags |-> ds]

NotBuilt == [built |-> FALSE, ok |-> FALSE, stmts |-> <<>>, diags |-> <<>>]

Stopped == BodyResult(FALSE, <<>>, <<>>)

\* A run of the two bodies: the value encoded, the container it was
\* encoded into, and what init(from:) made of that container.
NoTrip == [phase |-> "none", value |-> <<>>, stored |-> {}, threw |-> FALSE, decoded |-> <<>>]

NoBodies == [encode |-> NotBuilt, init |-> NotBuilt, trip |-> NoTrip]

\* llvm_unreachable and a failed assert are undefined behaviour in a build
\* without assertions: the build with assertions stops the compiler, the
\* other one runs on with whatever the missing declaration yields.
UBOutcomes == {"abort", "garbage"}

Garbage == "<garbage>"

\* `container = [try] base.container(keyedBy: CodingKeys.self)` followed by
\* the declaration of `container`.
ContainerBinding(base, try) ==
  << [Stmt("container(keyedBy:)", base, "container", "", try)
        EXCEPT !.keyedBy = Id_CodingKeys],
     Stmt("var", "", "container", "", FALSE) >>

\* lookupVarDeclForCodingKeysCase asking for the IfPresent variant whatever
\* the type of the property.
lookupVarDeclForCodingKeysCase_alwaysIfPresent(t, elt) ==
  WithValue(SelectFirst(t.props, LAMBDA p : p.name = elt \/ p.orig = elt), LAMBDA i :
    IF i = 0
    THEN [found |-> FALSE, vd |-> Garbage, isLet |-> FALSE, dflt |-> "none",
          useIfPresentVariant |-> FALSE]
    ELSE [found |-> TRUE, vd |-> t.props[i].name, isLet |-> t.props[i].isLet,
          dflt |-> t.props[i].dflt, useIfPresentVariant |-> TRUE])

\* lookupVarDeclForCodingKeysCase never asking for the IfPresent variant.
lookupVarDeclForCodingKeysCase_neverIfPresent(t, elt) ==
  WithValue(SelectFirst(t.props, LAMBDA p : p.name = elt \/ p.orig = elt), LAMBDA i :
    IF i = 0
    THEN [found |-> FALSE, vd |-> Garbage, isLet |-> FALSE, dflt |-> "none",
          useIfPresentVariant |-> FALSE]
    ELSE [found |-> TRUE, vd |-> t.props[i].name, isLet |-> t.props[i].isLet,
          dflt |-> t.props[i].dflt, useIfPresentVariant |-> FALSE])

\* The property a key names: found says whether lookupDirect yields a
\* non-static variable; vd is the variable, the backing storage when the
\* one found has a wrapper attached.
lookupVarDeclForCodingKeysCase(t, elt) ==
  WithValue(SelectFirst(t.props, LAMBDA p : p.name = elt \/ p.orig = elt), LAMBDA i :
    IF i = 0
    THEN [found |-> FALSE, vd |-> Garbage, isLet |-> FALSE, dflt |-> "none",
          useIfPresentVariant |-> FALSE]
    ELSE [found |-> TRUE, vd |-> t.props[i].name, isLet |-> t.props[i].isLet,
          dflt |-> t.props[i].dflt, useIfPresentVariant |-> t.props[i].optional])

\* The loop of deriveBodyEncodable_encode over the elements of CodingKeys,
\* from element i on.
RECURSIVE EncodeMembers(_, _, _, _, _)
EncodeMembers(t, elts, i, ub, statements) ==
  IF i > Len(elts) THEN [ok |-> TRUE, stmts |-> statements]
  ELSE WithValue(lookupVarDeclForCodingKeysCase(t, elts[i]), LAMBDA v :
         IF ~v.found /\ ub = "abort" THEN [ok |-> FALSE, stmts |-> <<>>]
         ELSE EncodeMembers(t, elts, i + 1, ub,
                Append(statements,
                       Stmt(IF v.useIfPresentVariant THEN "encodeIfPresent" ELSE "encode",
                            "container", v.vd, elts[i], TRUE))))

SuperEncode == Stmt("super.encode(to:)", "super", "container.superEncoder()", "", TRUE)

\* deriveBodyEncodable_encode with the call of super.encode put in front of
\* the members.
deriveBodyEncodable_encode_superFirst(t, mem, ub) ==
  WithValue(lookupEvaluatedCodingKeysEnum(mem, Id_CodingKeys), LAMBDA codingKeysEnum :
    IF codingKeysEnum = NoDecl THEN Stopped
    ELSE WithValue(EncodeMembers(t, codingKeysEnum.cases, 1, ub,
                     (IF superclassConformsTo(t, Encodable) THEN <<SuperEncode>> ELSE <<>>)
                       \o ContainerBinding("encoder", FALSE)),
           LAMBDA m : IF ~m.ok THEN Stopped ELSE BodyResult(TRUE, m.stmts, <<>>)))

deriveBodyEncodable_encode(t, mem, ub) ==
  WithValue(lookupEvaluatedCodingKeysEnum(mem, Id_CodingKeys), LAMBDA codingKeysEnum :
    IF codingKeysEnum = NoDecl THEN Stopped
    ELSE WithValue(EncodeMembers(t, codingKeysEnum.cases, 1, ub,
                                 ContainerBinding("encoder", FALSE)),
           LAMBDA m :
             IF ~m.ok THEN Stopped
             ELSE BodyResult(TRUE,
                    m.stmts \o (IF superclassConformsTo(t, Encodable)
                                THEN <<SuperEncode>> ELSE <<>>),
                    <<>>)))

\* WillNotBeDecoded emitting nothing.
WillNotBeDecoded_silent(vd, implicit) == <<>>

\* The three diagnostics for a `let` with an initial value that is named by
\* a key and will not be decoded.
WillNotBeDecoded(vd, implicit) ==
  << Diag("decodable_property_will_not_be_decoded", vd),
     Diag(IF implicit THEN "decodable_property_init_or_codingkeys_implicit"
          ELSE "decodable_property_init_or_codingkeys_explicit", vd),
     Diag("decodable_make_property_mutable", vd) >>

\* The loop of deriveBodyDecodable_init over the elements of CodingKeys,
\* from element i on.
RECURSIVE DecodeMembers(_, _, _, _, _, _, _)
DecodeMembers(t, codingKeysEnum, conformsToEncodable, i, ub, statements, ds) ==
  IF i > Len(codingKeysEnum.cases) THEN [ok |-> TRUE, stmts |-> statements, diags |-> ds]
  ELSE WithValue(lookupVarDeclForCodingKeysCase(t, codingKeysEnum.cases[i]), LAMBDA v :
         IF ~v.found /\ ub = "abort" THEN [ok |-> FALSE, stmts |-> <<>>, diags |-> ds]
         ELSE IF v.isLet /\ v.dflt = "parent"
         THEN LET keyExistsInCodingKeys == lookupEnumCase(codingKeysEnum, v.vd)
              IN IF ~codingKeysEnum.implicit
                    /\ (conformsToEncodable \/ ~keyExistsInCodingKeys)
                 THEN DecodeMembers(t, codingKeysEnum, conformsToEncodable, i + 1, ub,
                                    statements, ds)
                 ELSE DecodeMembers(t, codingKeysEnum, conformsToEncodable, i + 1, ub,
                                    statements,
                                    ds \o WillNotBeDecoded(v.vd, codingKeysEnum.implicit))
         ELSE DecodeMembers(t, codingKeysEnum, conformsToEncodable, i + 1, ub,
                Append(statements,
                       Stmt(IF v.useIfPresentVariant THEN "decodeIfPresent" ELSE "decode",
                            "container", v.vd, codingKeysEnum.cases[i], TRUE)),
                ds))

SuperInitFrom == Stmt("super.init(from:)", "super", "container.superDecoder()", "", TRUE)

SuperInit(try) == Stmt("super.init()", "super", "", "", try)

\* What the direct lookup of init() in the superclass finds: the
\* zero-argument initializer the superclass has, the one the member lookup
\* of the gate finds as well.
lookupDirectInit(superclassDecl) == superclassDecl.initZero

\* SuperInitCall calling the zero-argument initializer of every superclass,
\* Decodable or not.
SuperInitCall_zeroArgument(t, ub) ==
  IF t.kind # "class" \/ ~t.super.has THEN [ok |-> TRUE, stmts |-> <<>>]
  ELSE [ok |-> TRUE, stmts |-> <<SuperInit(lookupDirectInit(t.super).throws)>>]

\* The call of the superclass initializer that ends the body of a class
\* with a superclass: ok is FALSE when the compiler stopped at an assertion.
SuperInitCall(t, ub) ==
  IF t.kind # "class" \/ ~t.super.has THEN [ok |-> TRUE, stmts |-> <<>>]
  ELSE IF superclassConformsTo(t, Decodable) THEN [ok |-> TRUE, stmts |-> <<SuperInitFrom>>]
  ELSE LET result == lookupDirectInit(t.super)
       IN IF (result.count = 0 \/ result.failable) /\ ub = "abort"
          THEN [ok |-> FALSE, stmts |-> <<>>]
          ELSE [ok |-> TRUE, stmts |-> <<SuperInit(result.throws)>>]

\* deriveBodyDecodable_init binding the container whatever the key enum holds.
deriveBodyDecodable_init_alwaysBinds(t, mem, conformsToEncodable, ub) ==
  WithValue(lookupEvaluatedCodingKeysEnum(mem, Id_CodingKeys), LAMBDA codingKeysEnum :
    IF codingKeysEnum = NoDecl THEN Stopped
    ELSE WithValue(DecodeMembers(t, codingKeysEnum, conformsToEncodable, 1, ub,
                                 ContainerBinding("decoder", TRUE), <<>>),
           LAMBDA m :
             WithValue(SuperInitCall(t, ub), LAMBDA s :
               IF ~m.ok \/ ~s.ok THEN BodyResult(FALSE, <<>>, m.diags)
               ELSE BodyResult(TRUE, m.stmts \o s.stmts, m.diags))))

deriveBodyDecodable_init(t, mem, conformsToEncodable, ub) ==
  WithValue(lookupEvaluatedCodingKeysEnum(mem, Id_CodingKeys), LAMBDA codingKeysEnum :
    IF codingKeysEnum = NoDecl THEN Stopped
    ELSE WithValue(IF codingKeysEnum.cases # <<>>
                   THEN DecodeMembers(t, codingKeysEnum, conformsToEncodable, 1, ub,
                                      ContainerBinding("decoder", TRUE), <<>>)
                   ELSE [ok |-> TRUE, stmts |-> <<>>, diags |-> <<>>],
           LAMBDA m :
             WithValue(SuperInitCall(t, ub), LAMBDA s :
               IF ~m.ok \/ ~s.ok THEN BodyResult(FALSE, <<>>, m.diags)
               ELSE BodyResult(TRUE, m.stmts \o s.stmts, m.diags))))

(***************************************************************************)
(* Bodies of a tagged union.  The payload of a case is bound to one        *)
(* variable per parameter, named by the label, or by its position when the *)
(* parameter has none.                                                     *)
(***************************************************************************)
PositionalNames == <<"a0", "a1", "a2">>

enumElementPayloadSubpattern(elt) ==
  [i \in 1..Len(elt.params) |->
     IF elt.params[i].name # "" THEN elt.params[i].name ELSE PositionalNames[i]]

\* `nestedContainer = [try] container.<open>(...forKey: .<case>)` followed by
\* the declaration of `nestedContainer`.
NestedBinding(open, keyedBy, codingKeyCase, try) ==
  << [Stmt(open, "container", "nestedContainer", codingKeyCase, try)
        EXCEPT !.keyedBy = keyedBy],
     Stmt("var", "", "nestedContainer", "", FALSE) >>

Arm(name, pattern, stmts) == [case |-> name, pattern |-> pattern, stmts |-> stmts]

\* The statements of the arm of a case with an unnamed parameter: one
\* positional encode per payload variable.
EncodeUnkeyedArm(elt) ==
  NestedBinding("nestedUnkeyedContainer(forKey:)", "", elt.name, FALSE)
    \o [i \in 1..Len(elt.params) |->
          Stmt("encode", "nestedContainer", enumElementPayloadSubpattern(elt)[i], "", TRUE)]

\* The keyed encodes of the payload variables of elt from parameter i on:
\* a variable with no case in caseCodingKeys is skipped.
RECURSIVE EncodeKeyedPayload(_, _, _)
EncodeKeyedPayload(elt, caseCodingKeys, i) ==
  IF i > Len(elt.params) THEN <<>>
  ELSE LET payloadVar == enumElementPayloadSubpattern(elt)[i]
       IN (IF ~lookupEnumCase(caseCodingKeys, payloadVar) THEN <<>>
           ELSE << Stmt(IF elt.params[i].optional THEN "encodeIfPresent" ELSE "encode",
                        "nestedContainer", payloadVar, payloadVar, TRUE) >>)
            \o EncodeKeyedPayload(elt, caseCodingKeys, i + 1)

\* The arms of `switch self` for the union cases from case i on; ok is
\* FALSE when the compiler stopped at a missing CodingKeys_<case>.
RECURSIVE EncodeArms(_, _, _, _, _, _)
EncodeArms(t, mem, codingKeysEnum, i, ub, cases) ==
  IF i > Len(t.cases) THEN [ok |-> TRUE, arms |-> cases]
  ELSE LET elt == t.cases[i]
           pattern == enumElementPayloadSubpattern(elt)
       IN IF ~lookupEnumCase(codingKeysEnum, elt.name)
          THEN EncodeArms(t, mem, codingKeysEnum, i + 1, ub, cases)
          ELSE IF hasAnyUnnamedParameters(elt)
          THEN EncodeArms(t, mem, codingKeysEnum, i + 1, ub,
                          Append(cases, Arm(elt.name, pattern, EncodeUnkeyedArm(elt))))
          ELSE WithValue(lookupEvaluatedCodingKeysEnum(mem, combineIdentifiers(Id_CodingKeys, elt.name)),
                 LAMBDA caseCodingKeys :
                   IF caseCodingKeys = NoDecl /\ ub = "abort"
                   THEN [ok |-> FALSE, arms |-> <<>>]
                   ELSE EncodeArms(t, mem, codingKeysEnum, i + 1, ub,
                          Append(cases,
                            Arm(elt.name, pattern,
                                NestedBinding("nestedContainer(keyedBy:forKey:)",
                                              IF caseCodingKeys = NoDecl THEN Garbage
                                              ELSE combineIdentifiers(Id_CodingKeys, elt.name),
                                              elt.name, FALSE)
                                  \o EncodeKeyedPayload(elt, caseCodingKeys, 1)))))

Switch(subject, cases) == [Stmt("switch", "", subject, "", FALSE) EXCEPT !.arms = cases]

\* deriveBodyEncodable_enum_encode emitting an arm for every union case,
\* with a key in CodingKeys or without.
deriveBodyEncodable_enum_encode_everyCase(t, mem, ub) ==
  WithValue(lookupEvaluatedCodingKeysEnum(mem, Id_CodingKeys), LAMBDA codingKeysEnum :
    IF codingKeysEnum = NoDecl THEN Stopped
    ELSE WithValue(EncodeArms(t, mem,
                              [codingKeysEnum EXCEPT
                                 !.cases = [i \in 1..Len(t.cases) |-> t.cases[i].name]],
                              1, ub, <<>>),
           LAMBDA m :
             IF ~m.ok THEN Stopped
             ELSE BodyResult(TRUE,
                             Append(ContainerBinding("encoder", FALSE), Switch("self", m.arms)),
                             <<>>)))

deriveBodyEncodable_enum_encode(t, mem, ub) ==
  WithValue(lookupEvaluatedCodingKeysEnum(mem, Id_CodingKeys), LAMBDA codingKeysEnum :
    IF codingKeysEnum = NoDecl THEN Stopped
    ELSE WithValue(EncodeArms(t, mem, codingKeysEnum, 1, ub, <<>>), LAMBDA m :
           IF ~m.ok THEN Stopped
           ELSE BodyResult(TRUE,
                           Append(ContainerBinding("encoder", FALSE), Switch("self", m.arms)),
                           <<>>)))

\* An argument of the case construction `self = .<case>(...)`: its label,
\* where its value comes from ("decode" or "default"), the key it is decoded
\* with ("" in an unkeyed container) and whether the type passed is Optional.
Arg(label, source, key, optionalType) ==
  [label |-> label, source |-> source, key |-> key, optionalType |-> optionalType]

AssignSelf(name, args) ==
  [Stmt("assign", "", "self", name, FALSE) EXCEPT !.args = args]

\* The statements of the arm of a case with an unnamed parameter: one
\* positional decode per parameter, passing the type of the parameter.
DecodeUnkeyedArm(elt) ==
  Append(NestedBinding("nestedUnkeyedContainer(forKey:)", "", elt.name, TRUE),
         AssignSelf(elt.name,
                    [i \in 1..Len(elt.params) |->
                       Arg(getVarNameForCoding(elt.params[i]), "decode", "",
                           elt.params[i].optional)]))

\* The arguments of a case whose parameters are all named: a keyed decode
\* for a parameter with a case in caseCodingKeys, its default expression
\* otherwise.  noDefault says that a parameter without both was met.
DecodeKeyedArgs(elt, caseCodingKeys) ==
  [i \in 1..Len(elt.params) |->
     IF lookupEnumCase(caseCodingKeys, elt.params[i].name)
     THEN Arg(getVarNameForCoding(elt.params[i]), "decode", elt.params[i].name,
              elt.params[i].optional)
     ELSE Arg(getVarNameForCoding(elt.params[i]),
              IF elt.params[i].hasDefault THEN "default" ELSE Garbage, "", FALSE)]

\* The arms of `switch container.allKeys.first` for the union cases from
\* case i on; ok is FALSE when the compiler stopped at an assertion or at a
\* missing CodingKeys_<case>.
RECURSIVE DecodeArms(_, _, _, _, _, _)
DecodeArms(t, mem, codingKeysEnum, i, ub, cases) ==
  IF i > Len(t.cases) THEN [ok |-> TRUE, arms |-> cases]
  ELSE LET elt == t.cases[i]
       IN IF ~lookupEnumCase(codingKeysEnum, elt.name)
          THEN DecodeArms(t, mem, codingKeysEnum, i + 1, ub, cases)
          ELSE IF elt.params = <<>>
          THEN DecodeArms(t, mem, codingKeysEnum, i + 1, ub,
                          Append(cases, Arm(elt.name, <<>>, <<AssignSelf(elt.name, <<>>)>>)))
          ELSE IF hasAnyUnnamedParameters(elt)
          THEN DecodeArms(t, mem, codingKeysEnum, i + 1, ub,
                          Append(cases, Arm(elt.name, <<>>, DecodeUnkeyedArm(elt))))
          ELSE WithValue(lookupEvaluatedCodingKeysEnum(mem, combineIdentifiers(Id_CodingKeys, elt.name)),
                 LAMBDA caseCodingKeys :
                   WithValue(DecodeKeyedArgs(elt, caseCodingKeys), LAMBDA args :
                     IF ub = "abort"
                        /\ (caseCodingKeys = NoDecl
                              \/ \E j \in 1..Len(args) : args[j].source = Garbage)
                     THEN [ok |-> FALSE, arms |-> <<>>]
                     ELSE DecodeArms(t, mem, codingKeysEnum, i + 1, ub,
                            Append(cases,
                              Arm(elt.name, <<>>,
                                  Append(NestedBinding("nestedContainer(keyedBy:forKey:)",
                                                       IF caseCodingKeys = NoDecl THEN Garbage
                                                       ELSE combineIdentifiers(Id_CodingKeys, elt.name),
                                                       elt.name, TRUE),
                                         AssignSelf(elt.name, args)))))))

DefaultArm == Arm("default", <<>>, <<Stmt("fatalError", "", "foo", "", FALSE)>>)

deriveBodyDecodable_enum_init(t, mem, ub) ==
  WithValue(lookupEvaluatedCodingKeysEnum(mem, Id_CodingKeys), LAMBDA codingKeysEnum :
    IF codingKeysEnum = NoDecl THEN Stopped
    ELSE IF codingKeysEnum.cases = <<>> THEN BodyResult(TRUE, <<>>, <<>>)
    ELSE WithValue(DecodeArms(t, mem, codingKeysEnum, 1, ub, <<>>), LAMBDA m :
           IF ~m.ok THEN Stopped
           ELSE BodyResult(TRUE,
                           Append(ContainerBinding("decoder", TRUE),
                                  Switch("container.allKeys.first",
                                         Append(m.arms, DefaultArm))),
                           <<>>)))

(***************************************************************************)
(* The state machine.  last records the latest call: its inputs, the state *)
(* it started from and what it did.                                        *)
(***************************************************************************)
NoCall ==
  [op |-> "none", proto |-> "none", requirement |-> "", disallowed |-> FALSE,
   before |-> <<>>, streamBefore |-> <<>>, witnessesBefore |-> <<>>,
   prevProto |-> "none", prevWitness |-> NoWitness,
   r |-> Rejected(<<>>, <<>>, <<>>)]

Requirements == {Id_encode, Id_init}

Init ==
  /\ \E p \in Programs : target = p.target /\ members = p.members
  /\ diags = <<>>
  /\ witnesses = <<>>
  /\ last = NoCall
  /\ ncalls = 0
  /\ bodies = NoBodies

Call(op, proto, requirement, disallowed, r) ==
  /\ ncalls < MaxCalls
  /\ ncalls' = ncalls + 1
  /\ members' = r.members
  /\ diags' = r.stream
  /\ witnesses' = IF r.witness # NoWitness THEN Append(witnesses, r.witness) ELSE witnesses
  /\ last' = [op |-> op, proto |-> proto, requirement |-> requirement,
              disallowed |-> disallowed, before |-> members, streamBefore |-> diags,
              witnessesBefore |-> witnesses,
              prevProto |-> last.proto, prevWitness |-> last.r.witness,
              r |-> r]
  /\ UNCHANGED <<target, bodies>>

DeriveEncodable ==
  \E requirement \in Requirements, disallowed \in BOOLEAN :
    \E r \in {deriveEncodable(target, members, diags, requirement, disallowed)} :
      Call("deriveEncodable", Encodable, requirement, disallowed, r)

DeriveDecodable ==
  \E requirement \in Requirements, disallowed \in BOOLEAN :
    \E r \in {deriveDecodable(target, members, diags, requirement, disallowed)} :
      Call("deriveDecodable", Decodable, requirement, disallowed, r)

Next == DeriveEncodable \/ DeriveDecodable

Spec == Init /\ [][Next]_vars

(***************************************************************************)
(* The bodies.  The programs are types every member of which conforms to   *)
(* both protocols, so that the derivations succeed and the bodies are      *)
(* synthesized: members that are optional, immutable with an initial       *)
(* value, or wrapped; classes with a superclass; union cases with no,      *)
(* named, optional and unnamed parameters.  conforms holds the protocols   *)
(* the type declares.                                                      *)
(***************************************************************************)
BodyPropKinds ==
  { [wrapped |-> FALSE, dflt |-> "none",   optional |-> FALSE, isLet |-> FALSE],
    [wrapped |-> FALSE, dflt |-> "pbd",    optional |-> TRUE,  isLet |-> FALSE],
    [wrapped |-> FALSE, dflt |-> "parent", optional |-> FALSE, isLet |-> FALSE],
    [wrapped |-> FALSE, dflt |-> "parent", optional |-> FALSE, isLet |-> TRUE],
    [wrapped |-> TRUE,  dflt |-> "none",   optional |-> FALSE, isLet |-> FALSE] }

MkBodyProp(i, k) ==
  [name |-> IF k.wrapped THEN BackingName[PropNames[i]] ELSE PropNames[i],
   orig |-> IF k.wrapped THEN PropNames[i] ELSE "",
   ua |-> TRUE, confEnc |-> TRUE, confDec |-> TRUE, dflt |-> k.dflt,
   optional |-> k.optional, isLet |-> k.isLet]

BodyPropSeqs(n) ==
  {[i \in 1..Len(ks) |-> MkBodyProp(i, ks[i])] : ks \in SeqsUpTo(BodyPropKinds, n)}

BodyParam(l, o, h) ==
  [name |-> l, orig |-> "", ua |-> TRUE, confEnc |-> TRUE, confDec |-> TRUE,
   hasDefault |-> h, optional |-> o]

\* A parameter whose type conforms to Decodable and not to Encodable.
DecodableOnly(p) == [p EXCEPT !.confEnc = FALSE]

BodyCaseKinds ==
  { <<>>,
    <<BodyParam("a", FALSE, FALSE)>>,
    <<BodyParam("a", TRUE, FALSE)>>,
    <<BodyParam("a", FALSE, FALSE), BodyParam("b", FALSE, TRUE)>>,
    <<BodyParam("", FALSE, FALSE), BodyParam("", TRUE, FALSE)>>,
    <<DecodableOnly(BodyParam("a", FALSE, TRUE))>>,
    <<DecodableOnly(BodyParam("a", FALSE, FALSE))>>,
    <<BodyParam("a", FALSE, FALSE), DecodableOnly(BodyParam("b", FALSE, TRUE))>> }

BodyCaseSeqs ==
  {[i \in 1..Len(ks) |-> MkCase(i, ks[i])] : ks \in SeqsUpTo(BodyCaseKinds, MaxCases)}

BodyTarget(k, ps, cs, s, conf) ==
  [kind |-> k, props |-> ps, cases |-> cs, super |-> s, conforms |-> conf]

BodyKeyDecls ==
  {<<>>} \cup {<<UserEnum(Id_CodingKeys, cs)>> : cs \in {<<>>, <<"x">>, <<"y", "x">>}}

BodyStructPrograms ==
  {Program(BodyTarget("struct", ps, <<>>, NoSuper, conf), ms) :
     ps \in BodyPropSeqs(MaxProps), ms \in BodyKeyDecls,
     conf \in {Protocols, {Decodable}}}

BodySuperShapes ==
  { Super(FALSE, FALSE, NoInit, GoodInit),
    Super(FALSE, FALSE, NoInit, InitDecl(1, TRUE, TRUE, FALSE, TRUE)),
    Super(TRUE, FALSE, NoInit, GoodInit),
    Super(FALSE, TRUE, GoodInit, NoInit),
    Super(TRUE, TRUE, GoodInit, GoodInit),
    Super(FALSE, FALSE, NoInit, NoInit),
    Super(FALSE, FALSE, NoInit, InitDecl(2, TRUE, TRUE, FALSE, FALSE)),
    Super(FALSE, FALSE, NoInit, InitDecl(1, TRUE, TRUE, TRUE, TRUE)) }

BodyClassPrograms ==
  {Program(BodyTarget("class", ps, <<>>, s, Protocols), ms) :
     ps \in BodyPropSeqs(1), s \in BodySuperShapes,
     ms \in {<<>>, <<UserEnum(Id_CodingKeys, <<>>)>>, <<UserEnum(Id_CodingKeys, <<"x">>)>>}}

BodyEnumPrograms ==
  {Program(BodyTarget("enum", <<>>, cs, NoSuper, Protocols), o \o c) :
     cs \in BodyCaseSeqs,
     o \in {<<>>, <<UserEnum(Id_CodingKeys, <<>>)>>, <<UserEnum(Id_CodingKeys, <<"circle">>)>>},
     c \in {<<>>, <<UserEnum(CaseKeyName["circle"], <<"a">>)>>}}

BodyPrograms == BodyStructPrograms \cup BodyClassPrograms \cup BodyEnumPrograms

BodyInit ==
  /\ \E p \in BodyPrograms : target = p.target /\ members = p.members
  /\ diags = <<>>
  /\ witnesses = <<>>
  /\ last = NoCall
  /\ ncalls = 0
  /\ bodies = NoBodies

\* The conformance checker asks for the witness of a protocol the type
\* declares, in a context that allows the derivation.
DeriveEncodableWitness ==
  /\ Encodable \in target.conforms
  /\ \E r \in {deriveEncodable(target, members, diags, Id_encode, FALSE)} :
       Call("deriveEncodable", Encodable, Id_encode, FALSE, r)

DeriveDecodableWitness ==
  /\ Decodable \in target.conforms
  /\ \E r \in {deriveDecodable(target, members, diags, Id_init, FALSE)} :
       Call("deriveDecodable", Decodable, Id_init, FALSE, r)

\* The body synthesizer deriveEncodable_encode sets for the witness.
encodeBodySynthesizer(t, mem, ub) ==
  IF t.kind = "enum" THEN deriveBodyEncodable_enum_encode(t, mem, ub)
  ELSE deriveBodyEncodable_encode(t, mem, ub)

\* The body synthesizer deriveDecodable_init sets for the witness.
initBodySynthesizer(t, mem, conformsToEncodable, ub) ==
  IF t.kind = "enum" THEN deriveBodyDecodable_enum_init(t, mem, ub)
  ELSE deriveBodyDecodable_init(t, mem, conformsToEncodable, ub)

HasWitness(w) == \E i \in 1..Len(witnesses) : witnesses[i] = w

\* The body of encode(to:) is asked for.
BuildEncodeBody ==
  /\ HasWitness(Witness_encode)
  /\ ~bodies.encode.built
  /\ \E ub \in UBOutcomes :
       \E b \in {encodeBodySynthesizer(target, members, ub)} :
         /\ bodies' = [bodies EXCEPT !.encode = b]
         /\ diags' = diags \o b.diags
  /\ UNCHANGED <<target, members, witnesses, last, ncalls>>

\* The body of init(from:) is asked for.
BuildInitBody ==
  /\ HasWitness(Witness_init)
  /\ ~bodies.init.built
  /\ \E ub \in UBOutcomes :
       \E b \in {initBodySynthesizer(target, members, Encodable \in target.conforms, ub)} :
         /\ bodies' = [bodies EXCEPT !.init = b]
         /\ diags' = diags \o b.diags
  /\ UNCHANGED <<target, members, witnesses, last, ncalls>>

(***************************************************************************)
(* Running the bodies.  A keyed container is the set of its <<key, value>> *)
(* entries, an unkeyed container the sequence of its values.  encode       *)
(* stores the value, encodeIfPresent stores it unless it is none; decode   *)
(* throws when the key is missing or a value that is not Optional is null, *)
(* decodeIfPresent yields none for a missing key.                          *)
(***************************************************************************)
None == 0
InitialValue == 7
Uninitialized == 99
MemberValue(i) == 10 + i
PayloadValue(j) == 20 + j

HasKey(container, key) == \E e \in container : e[1] = key

ValueAt(container, key) == (CHOOSE e \in container : e[1] = key)[2]

\* The value a member holds before init(from:) assigns it.
DefaultOf(p) ==
  IF p.dflt = "parent" THEN InitialValue
  ELSE IF p.dflt = "pbd" THEN None
  ELSE Uninitialized

\* The values of a record: an immutable member with an initial value holds
\* that value, an optional member holds none or a value.
RecordValues(t) ==
  {v \in [1..Len(t.props) -> {None, InitialValue} \cup {MemberValue(i) : i \in 1..Len(t.props)}] :
     \A i \in 1..Len(t.props) :
       v[i] \in (IF t.props[i].isLet /\ t.props[i].dflt = "parent" THEN {InitialValue}
                 ELSE IF t.props[i].optional THEN {None, MemberValue(i)}
                 ELSE {MemberValue(i)})}

\* The payloads of a union case: an optional parameter holds none or a
\* value.
PayloadsOf(c) ==
  {pl \in [1..Len(c.params) -> {None} \cup {PayloadValue(j) : j \in 1..Len(c.params)}] :
     \A j \in 1..Len(c.params) :
       pl[j] \in (IF c.params[j].optional THEN {None, PayloadValue(j)}
                  ELSE {PayloadValue(j)})}

\* The values of a tagged union: <<index of the case, payload>>.
UnionValues(t) ==
  UNION {{<<k, pl>> : pl \in PayloadsOf(t.cases[k])} : k \in 1..Len(t.cases)}

Entries(stmts, valueOf(_)) ==
  {<<stmts[i].key, valueOf(stmts[i].subject)>> :
     i \in {j \in 1..Len(stmts) :
              \/ stmts[j].op = "encode"
              \/ stmts[j].op = "encodeIfPresent" /\ valueOf(stmts[j].subject) # None}}

\* encode(to:) of a record: the keyed container it fills.
RunEncodeRecord(stmts, t, self) ==
  Entries(stmts, LAMBDA name : self[SelectFirst(t.props, LAMBDA p : p.name = name)])

\* init(from:) of a record over a keyed container.
RunInitRecord(stmts, t, stored) ==
  LET decodes == {i \in 1..Len(stmts) : stmts[i].op \in {"decode", "decodeIfPresent"}}
      Decoded(st) ==
        IF HasKey(stored, st.key) THEN ValueAt(stored, st.key) ELSE None
      Throws(st) ==
        st.op = "decode" /\ (~HasKey(stored, st.key) \/ ValueAt(stored, st.key) = None)
  IN [threw |-> \E i \in decodes : Throws(stmts[i]),
      decoded |-> [k \in 1..Len(t.props) |->
                     IF \E i \in decodes : stmts[i].subject = t.props[k].name
                     THEN Decoded(stmts[CHOOSE i \in decodes :
                                          stmts[i].subject = t.props[k].name])
                     ELSE DefaultOf(t.props[k])]]

\* encode(to:) of a tagged union: the arm of the case of self fills the
\* nested container stored under its key; no arm stores nothing.
RunEncodeUnion(stmts, t, self) ==
  LET sw == stmts[Len(stmts)]
      arms == {i \in 1..Len(sw.arms) : sw.arms[i].case = t.cases[self[1]].name}
  IN IF arms = {} THEN {}
     ELSE LET a == sw.arms[CHOOSE i \in arms : TRUE]
              payload == SubSeq(a.stmts, 3, Len(a.stmts))
              valueOf(name) == self[2][SelectFirst(a.pattern, LAMBDA n : n = name)]
          IN IF a.stmts[1].op = "nestedUnkeyedContainer(forKey:)"
             THEN {<<a.stmts[1].key, [j \in 1..Len(payload) |-> valueOf(payload[j].subject)]>>}
             ELSE {<<a.stmts[1].key, Entries(payload, valueOf)>>}

\* init(from:) of a tagged union: the arm of the first key of the
\* container builds the case; the default arm stops the program.
RunInitUnion(stmts, t, stored) ==
  IF stmts = <<>> \/ stored = {} THEN [threw |-> TRUE, decoded |-> <<>>]
  ELSE LET sw == stmts[Len(stmts)]
           first == (CHOOSE e \in stored : TRUE)[1]
           nested == ValueAt(stored, first)
           a == sw.arms[CHOOSE i \in 1..Len(sw.arms) : sw.arms[i].case = first]
           assign == a.stmts[Len(a.stmts)]
           unkeyed == a.stmts[1].op = "nestedUnkeyedContainer(forKey:)"
           Throws(j) ==
             /\ assign.args[j].source = "decode"
             /\ IF unkeyed THEN j > Len(nested) \/ (nested[j] = None /\ ~assign.args[j].optionalType)
                ELSE \/ ~HasKey(nested, assign.args[j].key)
                     \/ ValueAt(nested, assign.args[j].key) = None
                          /\ ~assign.args[j].optionalType
           Decoded(j) ==
             IF assign.args[j].source # "decode" THEN InitialValue
             ELSE IF unkeyed THEN nested[j]
             ELSE ValueAt(nested, assign.args[j].key)
       IN IF \E j \in 1..Len(assign.args) : Throws(j)
          THEN [threw |-> TRUE, decoded |-> <<>>]
          ELSE [threw |-> FALSE,
                decoded |-> <<SelectFirst(t.cases, LAMBDA c : c.name = first),
                              [j \in 1..Len(assign.args) |-> Decoded(j)]>>]

\* A value of the type is encoded with the synthesized encode(to:).
RunEncodeBody ==
  /\ bodies.encode.built /\ bodies.encode.ok
  /\ bodies.init.built /\ bodies.init.ok
  /\ bodies.trip.phase = "none"
  /\ target.kind \in {"struct", "enum"}
  /\ \E self \in IF target.kind = "enum" THEN UnionValues(target) ELSE RecordValues(target) :
       bodies' = [bodies EXCEPT !.trip =
                    [phase |-> "encoded", value |-> self,
                     stored |-> IF target.kind = "enum"
                                THEN RunEncodeUnion(bodies.encode.stmts, target, self)
                                ELSE RunEncodeRecord(bodies.encode.stmts, target, self),
                     threw |-> FALSE, decoded |-> <<>>]]
  /\ UNCHANGED <<target, members, diags, witnesses, last, ncalls>>

\* The container is decoded with the synthesized init(from:).
RunInitBody ==
  /\ bodies.trip.phase = "encoded"
  /\ \E r \in {IF target.kind = "enum"
                THEN RunInitUnion(bodies.init.stmts, target, bodies.trip.stored)
                ELSE RunInitRecord(bodies.init.stmts, target, bodies.trip.stored)} :
       bodies' = [bodies EXCEPT !.trip.phase = "decoded",
                                !.trip.threw = r.threw,
                                !.trip.decoded = r.decoded]
  /\ UNCHANGED <<target, members, diags, witnesses, last, ncalls>>

BodyNext ==
  \/ DeriveEncodableWitness
  \/ DeriveDecodableWitness
  \/ BuildEncodeBody
  \/ BuildInitBody
  \/ RunEncodeBody
  \/ RunInitBody

SpecBody == BodyInit /\ [][BodyNext]_vars

(***************************************************************************)
(* Properties of the bodies.                                               *)
(***************************************************************************)
EncodeBody == bodies.encode.stmts

InitBody == bodies.init.stmts

\* A body was synthesized: the synthesizer ran and returned one.
EncodeSynthesized == bodies.encode.built /\ bodies.encode.ok

InitSynthesized == bodies.init.built /\ bodies.init.ok

\* The key enum the bodies are synthesized against.
KeyEnum == lookupEvaluatedCodingKeysEnum(members, Id_CodingKeys)

IsContainerBinding(st, base, try) ==
  /\ st.op = "container(keyedBy:)"
  /\ st.on = base
  /\ st.subject = "container"
  /\ st.keyedBy = Id_CodingKeys
  /\ st.try = try

\* C18: every synthesized encode body, of a record, a class or a tagged
\* union, begins with the binding of `container` to
\* encoder.container(keyedBy: CodingKeys.self), also when the key enum has
\* no cases; a synthesized init(from:) body contains the binding of
\* `container` to try decoder.container(keyedBy: CodingKeys.self) exactly
\* when the key enum has at least one case.
C18_ContainerBinding ==
  /\ EncodeSynthesized =>
       /\ Len(EncodeBody) >= 1
       /\ IsContainerBinding(EncodeBody[1], "encoder", FALSE)
  /\ InitSynthesized =>
       ((\E i \in 1..Len(InitBody) : IsContainerBinding(InitBody[i], "decoder", TRUE))
          <=> KeyEnum.cases # <<>>)

C18_Witness ==
  /\ EncodeSynthesized
  /\ InitSynthesized
  /\ KeyEnum.cases = <<>>
  /\ target.props # <<>>
  /\ IsContainerBinding(EncodeBody[1], "encoder", FALSE)
  /\ InitBody = <<>>

(***************************************************************************)
(* Properties of the gate.                                                 *)
(***************************************************************************)
Called == last.op # "none"

ExpectedRequirement(proto) == IF proto = Encodable THEN Id_encode ELSE Id_init

\* The latest call got past the three early returns of the gate.
Admitted ==
  /\ Called
  /\ target.kind \in {"struct", "class", "enum"}
  /\ last.requirement = ExpectedRequirement(last.proto)
  /\ ~last.disallowed

\* What the latest call appended to the committed stream.
Committed == SubSeq(diags, Len(last.streamBefore) + 1, Len(diags))

StreamKept ==
  /\ Len(diags) >= Len(last.streamBefore)
  /\ SubSeq(diags, 1, Len(last.streamBefore)) = last.streamBefore

WitnessOf(proto) == IF proto = Encodable THEN Witness_encode ELSE Witness_init

PrimaryKind == "type_does_not_conform"

\* C1: for a struct, class or enum with the expected requirement in an
\* allowed context, a successful canSynthesize aborts the transaction, so
\* nothing of the attempt is committed, and the witness is returned and
\* added to the conformance context; a failed one commits what was held and
\* returns and adds no witness.
C1_AbortOnSuccessCommitOnFailure ==
  Admitted =>
    IF canSynthesize(target, last.before, last.proto, last.requirement).ok
    THEN /\ diags = last.streamBefore
         /\ last.r.witness = WitnessOf(last.proto)
         /\ witnesses = Append(last.witnessesBefore, WitnessOf(last.proto))
    ELSE /\ StreamKept
         /\ Len(Committed) >= 2
         /\ Committed = last.r.attempt
         /\ last.r.witness = NoWitness
         /\ witnesses = last.witnessesBefore

C1_Witness ==
  /\ Admitted
  /\ last.op = "deriveEncodable"
  /\ last.r.synth
  /\ last.r.witness = Witness_encode
  /\ Len(last.r.attempt) = 2
  /\ diags = <<>>

\* C2: a failed derivation that opened the transaction commits the primary
\* error first, then "no witnesses", then every diagnostic of the superclass
\* check, the classifier, the validator and the synthesizer; one primary
\* error is committed, and nothing before it.
C2_PrimaryErrorFirst ==
  (Admitted /\ last.r.witness = NoWitness) =>
    /\ StreamKept
    /\ Len(Committed) >= 2
    /\ Committed[1].kind = PrimaryKind
    /\ Committed[2].kind = "no_witnesses"
    /\ SubSeq(Committed, 3, Len(Committed))
         = canSynthesize(target, last.before, last.proto, last.requirement).diags
    /\ Cardinality({i \in 1..Len(Committed) : Committed[i].kind = PrimaryKind}) = 1

C2_Witness ==
  /\ Admitted
  /\ last.op = "deriveDecodable"
  /\ last.r.witness = NoWitness
  /\ Len(Committed) >= 4
  /\ Committed[1].kind = PrimaryKind

\* C3: every call that returns no witness has committed at least one
\* diagnostic, whatever the kind of the target and the cause of the failure.
C3_NoSilentFailure ==
  (Called /\ last.r.witness = NoWitness) => Len(diags) > Len(last.streamBefore)

\* C4: a second run for the same protocol after a successful first run
\* classifies Valid, does not invoke the synthesizer and adds no member.
C4_SecondRunIsNoOp ==
  (Admitted /\ last.prevProto = last.proto /\ last.prevWitness # NoWitness) =>
    /\ last.r.cls = Valid
    /\ ~last.r.synth
    /\ members = last.before

(***************************************************************************)
(* What the claims say of declarations, stated without the operators of    *)
(* the synthesizer.                                                        *)
(***************************************************************************)
RecordTarget == target.kind \in {"struct", "class"}

Declared(mem, n) == SelectSeq(mem, LAMBDA d : d.name = n)

UserVisibleName(v) == IF v.orig = "" THEN v.name ELSE v.orig

TypeConforms(v, proto) ==
  (proto = Encodable /\ v.confEnc) \/ (proto = Decodable /\ v.confDec)

\* The members a key enum is checked against: the user-accessible ones, by
\* coding name; of several with one name the last declared stands for it.
CatalogNames(vs) == {UserVisibleName(vs[i]) : i \in {j \in 1..Len(vs) : vs[j].ua}}

CatalogEntry(vs, k) ==
  LET idx == {i \in 1..Len(vs) : vs[i].ua /\ UserVisibleName(vs[i]) = k}
  IN vs[CHOOSE i \in idx : \A j \in idx : j <= i]

KeyEnumNames ==
  {Id_CodingKeys} \cup {CaseKeyName[CaseNames[i]] : i \in 1..Len(CaseNames)}

\* The diagnostics of canSynthesize in the latest call, after the two posted.
AttemptNotes == SubSeq(last.r.attempt, 3, Len(last.r.attempt))

\* C5: the target never has two members of one key-enum name, and a key enum
\* that is there when a derivation starts is still the only one of its name
\* when the derivation ends.
C5_OneKeyEnumPerName ==
  \A n \in KeyEnumNames :
    /\ Len(Declared(members, n)) <= 1
    /\ (Called /\ Declared(last.before, n) # <<>>)
         => Declared(members, n) = Declared(last.before, n)

C5_Witness ==
  /\ target.kind = "enum"
  /\ witnesses = <<Witness_encode, Witness_init>>
  /\ last.r.cls = Valid
  /\ \E i \in 1..Len(last.before) :
       last.before[i].implicit /\ last.before[i].name = CaseKeyName["circle"]
  /\ \E i \in 1..Len(last.before) :
       last.before[i].implicit /\ last.before[i].name = Id_CodingKeys

\* The user-accessible stored properties whose type does not conform.
NonConforming(proto) ==
  SelectSeq(target.props, LAMBDA v : v.ua /\ ~TypeConforms(v, proto))

\* C6: on the struct/class path, when a user-accessible stored property does
\* not conform, the synthesizer diagnoses each such property, in order, no
\* witness results and the members of the target are unchanged.
C6_NoPartialEnum ==
  (Admitted /\ RecordTarget /\ last.r.synth /\ NonConforming(last.proto) # <<>>) =>
    /\ last.r.witness = NoWitness
    /\ members = last.before
    /\ AttemptNotes =
         [i \in 1..Len(NonConforming(last.proto)) |->
            Diag("codable_non_conforming_property_here", NonConforming(last.proto)[i].name)]

C6_Witness ==
  /\ Admitted /\ RecordTarget /\ last.r.synth
  /\ Len(NonConforming(last.proto)) = 2
  /\ Len(target.props) = 2
  /\ members = <<>>

\* The names a key enum of name n may use: the cases of an enum target for
\* its CodingKeys, the parameters of the case for CodingKeys_<case>, the
\* stored properties of a struct or class.
Described(n) ==
  IF target.kind = "enum"
  THEN IF n = Id_CodingKeys THEN {target.cases[i].name : i \in 1..Len(target.cases)}
       ELSE UNION {CatalogNames(target.cases[i].params) :
                     i \in {j \in 1..Len(target.cases) : CaseKeyName[target.cases[j].name] = n}}
  ELSE CatalogNames(target.props)

\* C8: whenever the classification is Valid or NeedsSynthesizedCodingKeys,
\* every case of every key enum present names a member of what the enum
\* describes.
C8_EveryPresentEnumValidated ==
  (Admitted /\ last.r.cls \in {Valid, NeedsSynthesizedCodingKeys}) =>
    \A i \in 1..Len(last.before) :
      LET d == last.before[i]
      IN (d.kind \in {"enum", "alias_enum"} /\ d.name \in KeyEnumNames)
           => Range(d.cases) \subseteq Described(d.name)

\* Conditions (a), (b) and (c) of the validator on the key-enum cases keys,
\* checked against the members vs.
NamesAMember(vs, keys) == \A i \in 1..Len(keys) : keys[i] \in CatalogNames(vs)

NamedConform(vs, proto, keys) ==
  \A i \in 1..Len(keys) :
    keys[i] \in CatalogNames(vs) => TypeConforms(CatalogEntry(vs, keys[i]), proto)

HasDefaultValue(v, isParam) ==
  IF isParam THEN v.hasDefault ELSE v.dflt \in {"pbd", "parent"}

Unnamed(vs, keys) == CatalogNames(vs) \ Range(keys)

UnnamedHaveDefault(vs, isParam, proto, keys) ==
  proto = Decodable =>
    \A k \in Unnamed(vs, keys) : HasDefaultValue(CatalogEntry(vs, k), isParam)

Acceptable(vs, isParam, proto, keys) ==
  /\ NamesAMember(vs, keys)
  /\ NamedConform(vs, proto, keys)
  /\ UnnamedHaveDefault(vs, isParam, proto, keys)

MalformedKinds ==
  {"codable_codingkeys_type_is_not_an_enum_here",
   "codable_codingkeys_type_does_not_conform_here"}

Malformed(d) == d.kind \notin {"enum", "alias_enum"} \/ ~d.conformsCK

\* C9: for a struct or class, the classification is NeedsSynthesizedCodingKeys
\* exactly when no member is named CodingKeys; it is Invalid, with exactly
\* one malformed-key-enum diagnostic, when that member is no enum or does not
\* conform to CodingKey; otherwise it is Valid or Invalid as the validator
\* accepts the enum or not.  Classification alone leaves the members alone.
C9_RecordClassification ==
  (Admitted /\ RecordTarget /\ last.r.superOK) =>
    LET decls == Declared(last.before, Id_CodingKeys)
    IN /\ (last.r.cls = NeedsSynthesizedCodingKeys) <=> (decls = <<>>)
       /\ (decls # <<>> /\ Malformed(decls[1])) =>
            /\ last.r.cls = Invalid
            /\ Len(AttemptNotes) = 1
            /\ AttemptNotes[1].kind \in MalformedKinds
            /\ AttemptNotes[1].at = Id_CodingKeys
       /\ (decls # <<>> /\ ~Malformed(decls[1])) =>
            last.r.cls = IF Acceptable(target.props, FALSE, last.proto, decls[1].cases)
                         THEN Valid ELSE Invalid
       /\ last.r.cls # NeedsSynthesizedCodingKeys => members = last.before

C9_Witness ==
  /\ Admitted /\ RecordTarget /\ last.r.superOK
  /\ last.r.cls = Invalid
  /\ Declared(last.before, Id_CodingKeys) # <<>>
  /\ Declared(last.before, Id_CodingKeys)[1].kind = "struct"
  /\ Len(AttemptNotes) = 1

\* The CodingKeys enums synthesized for a struct or class.
SynthesizedKeys ==
  IF RecordTarget
  THEN {members[i].cases : i \in {j \in 1..Len(members) :
                                    members[j].implicit /\ members[j].name = Id_CodingKeys}}
  ELSE {}

UserMembers == SelectSeq(target.props, LAMBDA v : v.ua)

BijectiveWithMembers(cs) ==
  /\ Len(cs) = Len(UserMembers)
  /\ \A i \in 1..Len(cs) : cs[i] = UserVisibleName(UserMembers[i])
  /\ NoDup(cs)

\* C10 as stated: the cases of a CodingKeys enum synthesized for a struct or
\* class are, one for one, the user-visible names of the user-accessible
\* stored properties, and there is no other case.
C10_KeysAreExactlyTheMembers ==
  \A cs \in SynthesizedKeys : BijectiveWithMembers(cs)

SuperConforms ==
  target.kind = "class" /\ target.super.has
    /\ (target.super.confEnc \/ target.super.confDec)

\* C10, amended: leaving aside the reserved case super, which comes first
\* when the target is a class whose superclass conforms to Encodable or
\* Decodable, the cases of a synthesized CodingKeys enum are, one for one,
\* the user-visible names of the user-accessible stored properties.
C10_KeysAreTheMembersAfterSuper ==
  \A cs \in SynthesizedKeys :
    IF SuperConforms
    THEN Len(cs) >= 1 /\ cs[1] = Id_super /\ BijectiveWithMembers(Tail(cs))
    ELSE BijectiveWithMembers(cs)

C10_Witness ==
  /\ SuperConforms
  /\ \E cs \in SynthesizedKeys : Len(cs) = 3 /\ cs[1] = Id_super
  /\ \E i \in 1..Len(target.props) : target.props[i].orig # ""

\* C17: a CodingKeys enum synthesized for a class has the case super exactly
\* when the superclass conforms to Encodable or to Decodable, and then super
\* is its first case and occurs once; one synthesized for a struct or for a
\* class without a conforming superclass has no case super.
C17_SuperCaseIffConformingSuperclass ==
  \A cs \in SynthesizedKeys :
    LET at == {i \in 1..Len(cs) : cs[i] = Id_super}
    IN IF target.kind = "class" /\ target.super.has
            /\ (target.super.confEnc \/ target.super.confDec)
       THEN at = {1}
       ELSE at = {}

C17_Witness ==
  /\ target.kind = "class"
  /\ target.super.confEnc /\ ~target.super.confDec
  /\ last.proto = Decodable
  /\ last.r.synth
  /\ \E cs \in SynthesizedKeys : Len(cs) = 2 /\ cs[1] = Id_super /\ cs[2] = "x"

\* The labels of the parameters of a union case, in declaration order.
Labels(c) == [j \in 1..Len(c.params) |-> c.params[j].name]

\* The outer CodingKeys the synthesizer works with in the latest call: the
\* one declared before the call or else the one the call installed.
OuterKeys ==
  LET decls == Declared(members, Id_CodingKeys)
  IN IF decls = <<>> THEN {} ELSE Range(decls[1].cases)

\* C20: when the synthesizer runs for a tagged union, a CodingKeys_<case>
\* enum is installed for a case exactly when the case has a named parameter,
\* has no unnamed parameter, has a key in the outer CodingKeys and had no
\* CodingKeys_<case> declared; the installed enum has exactly the labels of
\* the case as its cases; for every other case the declarations of that
\* name are as they were.
C20_NestedEnumInstalledIff ==
  (Admitted /\ target.kind = "enum" /\ last.r.synth) =>
    \A i \in 1..Len(target.cases) :
      LET c == target.cases[i]
          n == CaseKeyName[c.name]
          due == /\ Len(c.params) >= 1
                 /\ \A j \in 1..Len(c.params) : c.params[j].name # ""
                 /\ c.name \in OuterKeys
                 /\ Declared(last.before, n) = <<>>
      IN IF due
         THEN /\ Len(Declared(members, n)) = 1
              /\ Declared(members, n)[1].implicit
              /\ Declared(members, n)[1].cases = Labels(c)
         ELSE Declared(members, n) = Declared(last.before, n)

(***************************************************************************)
(* The superclass initializer a Decodable derivation has to call.          *)
(***************************************************************************)
DecodableForSubclass ==
  Admitted /\ last.proto = Decodable /\ target.kind = "class" /\ target.super.has

\* init(from:) of a Decodable superclass, init() of any other.
ChosenSuperInit ==
  IF target.super.confDec THEN target.super.initFrom ELSE target.super.initZero

SuperInitUsable(i) == i.count = 1 /\ i.designated /\ i.accessible /\ ~i.failable

SuperInitKinds ==
  {"decodable_no_super_init_here", "decodable_super_init_not_designated_here",
   "decodable_inaccessible_super_init_here", "decodable_super_init_is_failable_here"}

\* The diagnostic that belongs to the first thing wrong with initializer i.
SuperInitFault(i) ==
  IF i.count = 0 THEN "decodable_no_super_init_here"
  ELSE IF ~i.designated THEN "decodable_super_init_not_designated_here"
  ELSE IF ~i.accessible THEN "decodable_inaccessible_super_init_here"
  ELSE "decodable_super_init_is_failable_here"

SuperInitNotes ==
  SelectSeq(AttemptNotes, LAMBDA d : d.kind \in SuperInitKinds)

\* C16 as stated: a Decodable derivation for a class with a superclass checks
\* init(from:) of a Decodable superclass and init() of any other; whenever
\* that initializer is missing, ambiguous, not designated, inaccessible or
\* failable, exactly one superclass-initializer diagnostic is emitted and no
\* witness is returned.
C16_SuperInitFailureDiagnosed ==
  DecodableForSubclass =>
    /\ last.r.superOK <=> SuperInitUsable(ChosenSuperInit)
    /\ ~SuperInitUsable(ChosenSuperInit) =>
         /\ last.r.witness = NoWitness
         /\ Len(AttemptNotes) = 1
         /\ Len(SuperInitNotes) = 1

\* C16, amended: as above, except that an ambiguous lookup (more than one
\* result) emits no diagnostic of its own; every other failure emits exactly
\* the one diagnostic of its cause, and every failure returns no witness.
C16_SuperInitFailureDiagnosedUnlessAmbiguous ==
  DecodableForSubclass =>
    /\ last.r.superOK <=> SuperInitUsable(ChosenSuperInit)
    /\ SuperInitUsable(ChosenSuperInit) => SuperInitNotes = <<>>
    /\ ~SuperInitUsable(ChosenSuperInit) =>
         /\ last.r.witness = NoWitness
         /\ members = last.before
         /\ AttemptNotes =
              IF ChosenSuperInit.count > 1 THEN <<>>
              ELSE <<Diag(SuperInitFault(ChosenSuperInit),
                          IF ChosenSuperInit.count = 0 THEN "superclass" ELSE "initializer")>>

C16_Witness ==
  /\ DecodableForSubclass
  /\ target.super.confDec
  /\ ~ChosenSuperInit.accessible
  /\ ChosenSuperInit.count = 1
  /\ Len(AttemptNotes) = 1
  /\ last.r.witness = NoWitness

(***************************************************************************)
(* The validators on their own: a struct with a declared CodingKeys, or an *)
(* enum of one case with a declared CodingKeys_circle, validated for       *)
(* either protocol.                                                        *)
(***************************************************************************)
ValPropKinds ==
  { [wrapped |-> FALSE, ua |-> TRUE,  confEnc |-> TRUE,  confDec |-> TRUE,  dflt |-> "none"],
    [wrapped |-> FALSE, ua |-> TRUE,  confEnc |-> TRUE,  confDec |-> TRUE,  dflt |-> "pbd"],
    [wrapped |-> FALSE, ua |-> TRUE,  confEnc |-> TRUE,  confDec |-> TRUE,  dflt |-> "parent"],
    [wrapped |-> FALSE, ua |-> TRUE,  confEnc |-> TRUE,  confDec |-> FALSE, dflt |-> "none"],
    [wrapped |-> FALSE, ua |-> TRUE,  confEnc |-> FALSE, confDec |-> FALSE, dflt |-> "none"],
    [wrapped |-> FALSE, ua |-> TRUE,  confEnc |-> FALSE, confDec |-> FALSE, dflt |-> "parent"],
    [wrapped |-> TRUE,  ua |-> TRUE,  confEnc |-> TRUE,  confDec |-> TRUE,  dflt |-> "none"],
    [wrapped |-> FALSE, ua |-> FALSE, confEnc |-> FALSE, confDec |-> FALSE, dflt |-> "none"] }

ParamNames == <<"a", "b", "c">>

ValParamKinds ==
  { [named |-> TRUE,  confEnc |-> TRUE,  confDec |-> TRUE,  hasDefault |-> FALSE],
    [named |-> TRUE,  confEnc |-> TRUE,  confDec |-> TRUE,  hasDefault |-> TRUE],
    [named |-> TRUE,  confEnc |-> TRUE,  confDec |-> FALSE, hasDefault |-> FALSE],
    [named |-> FALSE, confEnc |-> TRUE,  confDec |-> TRUE,  hasDefault |-> FALSE],
    [named |-> FALSE, confEnc |-> TRUE,  confDec |-> TRUE,  hasDefault |-> TRUE] }

MkParam(i, k) ==
  Param(IF k.named THEN ParamNames[i] ELSE "", k.confEnc, k.confDec, k.hasDefault)

KeySeqs(names) == {ks \in SeqsUpTo(names, MaxKeys) : NoDup(ks)}

ValPrograms ==
  {Program(Target("struct", [i \in 1..Len(ks) |-> MkProp(i, ks[i])], <<>>, NoSuper),
           <<UserEnum(Id_CodingKeys, keys)>>) :
     ks \in SeqsUpTo(ValPropKinds, MaxProps), keys \in KeySeqs({"x", "y", "w"})}
  \cup
  {Program(Target("enum", <<>>,
                  <<MkCase(1, [i \in 1..Len(ks) |-> MkParam(i, ks[i])])>>, NoSuper),
           <<UserEnum(CaseKeyName[CaseNames[1]], keys)>>) :
     ks \in SeqsUpTo(ValParamKinds, MaxParams), keys \in KeySeqs({"a", "b", "k"})}

ValInit ==
  /\ \E p \in ValPrograms : target = p.target /\ members = p.members
  /\ diags = <<>>
  /\ witnesses = <<>>
  /\ last = [op |-> "none", proto |-> "none", keys |-> <<>>,
             r |-> [ok |-> FALSE, diags |-> <<>>]]
  /\ ncalls = 0
  /\ bodies = NoBodies

Validated(op, proto, keys, r) ==
  /\ ncalls < MaxCalls
  /\ ncalls' = ncalls + 1
  /\ diags' = diags \o r.diags
  /\ last' = [op |-> op, proto |-> proto, keys |-> keys, r |-> r]
  /\ UNCHANGED <<target, members, witnesses, bodies>>

ValidateCodingKeysEnum ==
  /\ target.kind = "struct"
  /\ \E proto \in Protocols :
       LET codingKeysDecl == lookupDirect(members, Id_CodingKeys)[1]
       IN Validated("validateCodingKeysEnum", proto, codingKeysDecl.cases,
                    validateCodingKeysEnum(target, proto, codingKeysDecl))

ValidateCaseCodingKeysEnum ==
  /\ target.kind = "enum"
  /\ \E proto \in Protocols :
       LET elementDecl == target.cases[1]
           codingKeysDecl ==
             lookupDirect(members, combineIdentifiers(Id_CodingKeys, elementDecl.name))[1]
       IN Validated("validateCaseCodingKeysEnum", proto, codingKeysDecl.cases,
                    validateCaseCodingKeysEnum(elementDecl, proto, codingKeysDecl))

ValNext == ValidateCodingKeysEnum \/ ValidateCaseCodingKeysEnum

SpecVal == ValInit /\ [][ValNext]_vars

\* What the latest validation checked the key enum against.
ValMembers ==
  IF last.op = "validateCaseCodingKeysEnum" THEN target.cases[1].params ELSE target.props

ValIsParam == last.op = "validateCaseCodingKeysEnum"

Emitted(d) == d \in Range(last.r.diags)

ValAccepts ==
  last.r.ok <=> Acceptable(ValMembers, ValIsParam, last.proto, last.keys)

ExtraneousDiagnosed ==
  \A i \in 1..Len(last.keys) :
    last.keys[i] \notin CatalogNames(ValMembers)
      => Emitted(Diag("codable_extraneous_codingkey_case_here", last.keys[i]))

NonConformingDiagnosed ==
  \A i \in 1..Len(last.keys) :
    (/\ last.keys[i] \in CatalogNames(ValMembers)
     /\ ~TypeConforms(CatalogEntry(ValMembers, last.keys[i]), last.proto))
      => Emitted(Diag("codable_non_conforming_property_here",
                      CatalogEntry(ValMembers, last.keys[i]).name))

NonDecoded ==
  {k \in Unnamed(ValMembers, last.keys) :
     last.proto = Decodable /\ ~HasDefaultValue(CatalogEntry(ValMembers, k), ValIsParam)}

\* C7 as stated: the validator accepts exactly when (a) every key names a
\* member, (b) every named member conforms and (c), for Decodable, every
\* member that is not named has a default; every extraneous key, every named
\* member that does not conform and every member failing (c) is diagnosed.
C7_ValidatorAcceptsIff ==
  last.op # "none" =>
    /\ ValAccepts
    /\ ExtraneousDiagnosed
    /\ NonConformingDiagnosed
    /\ \A k \in NonDecoded : Emitted(Diag("codable_non_decoded_property_here", k))

\* C7, amended: as stated, except that the members failing (c) are diagnosed
\* only when every key passes (a) and (b); when a key fails (a) or (b) the
\* validator returns before it looks at the members that are not named, and
\* no non-decoded-property diagnostic is emitted.
C7_ValidatorAcceptsIffNotesAfterKeys ==
  last.op # "none" =>
    /\ ValAccepts
    /\ ExtraneousDiagnosed
    /\ NonConformingDiagnosed
    /\ IF NamesAMember(ValMembers, last.keys) /\ NamedConform(ValMembers, last.proto, last.keys)
       THEN \A k \in NonDecoded : Emitted(Diag("codable_non_decoded_property_here", k))
       ELSE \A i \in 1..Len(last.r.diags) :
              last.r.diags[i].kind # "codable_non_decoded_property_here"

C7_Witness ==
  /\ last.op = "validateCodingKeysEnum"
  /\ last.proto = Decodable
  /\ last.keys = <<"x">>
  /\ Len(target.props) = 2
  /\ ~last.r.ok
  /\ last.r.diags = <<Diag("codable_non_decoded_property_here", "y")>>

\* The key enum of a union case, as the bodies look it up.
CaseKeyEnum(c) == lookupEvaluatedCodingKeysEnum(members, CaseKeyName[c.name])

\* The switch that ends the encode body of a tagged union.
EncodeSwitch == EncodeBody[Len(EncodeBody)]

ArmsOf(sw, name) == {i \in 1..Len(sw.arms) : sw.arms[i].case = name}

\* The labels of the parameters of c that are cases of its key enum, in
\* declaration order.
KeyedLabels(c) ==
  LET named == SelectSeq(c.params, LAMBDA q : q.name \in Range(CaseKeyEnum(c).cases))
  IN [j \in 1..Len(named) |-> named[j].name]

IsUnkeyedEncodeArm(a, c) ==
  /\ Len(a.stmts) = 2 + Len(c.params)
  /\ a.stmts[1].op = "nestedUnkeyedContainer(forKey:)"
  /\ a.stmts[1].on = "container"
  /\ a.stmts[1].key = c.name
  /\ \A j \in 1..Len(c.params) :
       /\ a.stmts[2 + j].op = "encode"
       /\ a.stmts[2 + j].on = "nestedContainer"
       /\ a.stmts[2 + j].key = ""
       /\ a.stmts[2 + j].subject = a.pattern[j]

IsKeyedEncodeArm(a, c) ==
  /\ Len(a.stmts) = 2 + Len(KeyedLabels(c))
  /\ a.stmts[1].op = "nestedContainer(keyedBy:forKey:)"
  /\ a.stmts[1].on = "container"
  /\ a.stmts[1].keyedBy = CaseKeyName[c.name]
  /\ a.stmts[1].key = c.name
  /\ \A j \in 1..Len(KeyedLabels(c)) :
       /\ a.stmts[2 + j].op \in {"encode", "encodeIfPresent"}
       /\ a.stmts[2 + j].on = "nestedContainer"
       /\ a.stmts[2 + j].key = KeyedLabels(c)[j]
       /\ a.stmts[2 + j].subject = KeyedLabels(c)[j]

\* C19: in the encode body of a tagged union, a union case with no case of
\* its name in the outer CodingKeys has no switch arm; a case with a key and
\* an unnamed parameter has one arm that opens a nested unkeyed container
\* and encodes every payload positionally in declaration order; any other
\* case with a key has one arm that opens a nested container keyed by
\* CodingKeys_<case> and emits one keyed encode for exactly the parameters
\* whose label is a case of CodingKeys_<case>.
C19_UnionEncodeArms ==
  (EncodeSynthesized /\ target.kind = "enum") =>
    /\ EncodeSwitch.op = "switch"
    /\ EncodeSwitch.subject = "self"
    /\ \A k \in 1..Len(target.cases) :
         LET c == target.cases[k]
             idx == ArmsOf(EncodeSwitch, c.name)
         IN IF c.name \notin Range(KeyEnum.cases) THEN idx = {}
            ELSE /\ Cardinality(idx) = 1
                 /\ \A i \in idx :
                      IF \E j \in 1..Len(c.params) : c.params[j].name = ""
                      THEN IsUnkeyedEncodeArm(EncodeSwitch.arms[i], c)
                      ELSE IsKeyedEncodeArm(EncodeSwitch.arms[i], c)

C19_Witness ==
  /\ EncodeSynthesized
  /\ target.kind = "enum"
  /\ Len(target.cases) = 2
  /\ Len(target.cases[1].params) = 2
  /\ KeyedLabels(target.cases[1]) = <<"a">>
  /\ target.cases[2].name \notin Range(KeyEnum.cases)
  /\ Len(EncodeSwitch.arms) = 1
  /\ Len(EncodeSwitch.arms[1].stmts) = 3

\* Both bodies ran: a value was encoded and the container decoded.
TripDone == bodies.trip.phase = "decoded"

Original == bodies.trip.value

Decoded == bodies.trip.decoded

NamedInKeys(p) == getVarNameForCoding(p) \in Range(KeyEnum.cases)

\* C11: for a record whose two derivations succeeded, encode(to:) followed
\* by init(from:) over the same keyed container does not throw and yields a
\* value whose members named in CodingKeys equal the original's, none in an
\* optional member included, and whose other members hold their defaults.
C11_RecordRoundTrip ==
  (TripDone /\ target.kind = "struct") =>
    /\ ~bodies.trip.threw
    /\ \A i \in 1..Len(target.props) :
         IF NamedInKeys(target.props[i]) THEN Decoded[i] = Original[i]
         ELSE Decoded[i] = DefaultOf(target.props[i])

C11_Witness ==
  /\ TripDone
  /\ target.kind = "struct"
  /\ Len(target.props) = 2
  /\ target.props[1].optional
  /\ NamedInKeys(target.props[1])
  /\ ~NamedInKeys(target.props[2])
  /\ Original = <<None, MemberValue(2)>>
  /\ Decoded = <<None, InitialValue>>
  /\ ~HasKey(bodies.trip.stored, "x")

\* The statements of a record/class body that encode or decode under key k.
StatementsFor(stmts, k, ops) ==
  {i \in 1..Len(stmts) : stmts[i].on = "container" /\ stmts[i].key = k /\ stmts[i].op \in ops}

IsRecordOrClass == target.kind \in {"struct", "class"}

\* The members a case of the key enum names.
KeyedMembers ==
  {i \in 1..Len(target.props) : NamedInKeys(target.props[i])}

EncodedWith(p, op) ==
  LET idx == StatementsFor(EncodeBody, getVarNameForCoding(p),
                           {"encode", "encodeIfPresent"})
  IN /\ Cardinality(idx) = 1
     /\ \A i \in idx : EncodeBody[i].op = op /\ EncodeBody[i].subject = p.name

DecodedWith(p, op) ==
  LET idx == StatementsFor(InitBody, getVarNameForCoding(p),
                           {"decode", "decodeIfPresent"})
  IN /\ Cardinality(idx) = 1
     /\ \A i \in idx :
          /\ InitBody[i].op = op
          /\ InitBody[i].subject = p.name
          /\ ~InitBody[i].optionalType

NotDecoded(p) ==
  StatementsFor(InitBody, getVarNameForCoding(p), {"decode", "decodeIfPresent"}) = {}

\* Decoding a container without the key of an optional member named in
\* CodingKeys assigns none to it and does not throw.
MissingOptionalYieldsNone ==
  (TripDone /\ target.kind = "struct") =>
    \A i \in KeyedMembers :
      (target.props[i].optional
         /\ ~HasKey(bodies.trip.stored, getVarNameForCoding(target.props[i])))
        => (~bodies.trip.threw /\ Decoded[i] = None)

\* C13 as stated: in the bodies of a record or class every member named by
\* a case of the key enum is encoded with encodeIfPresent and decoded with
\* decodeIfPresent of the unwrapped type when its type is optional, and
\* with encode and decode otherwise; decoding a container without the key
\* of an optional member assigns none and does not throw.
C13_OptionalVariant ==
  /\ (IsRecordOrClass /\ EncodeSynthesized) =>
       \A i \in KeyedMembers :
         EncodedWith(target.props[i],
                     IF target.props[i].optional THEN "encodeIfPresent" ELSE "encode")
  /\ (IsRecordOrClass /\ InitSynthesized) =>
       \A i \in KeyedMembers :
         DecodedWith(target.props[i],
                     IF target.props[i].optional THEN "decodeIfPresent" ELSE "decode")
  /\ MissingOptionalYieldsNone

\* C13 amended: the same, except that an immutable member with an initial
\* value has no decode statement at all.
C13_OptionalVariantUnlessLetInitialized ==
  /\ (IsRecordOrClass /\ EncodeSynthesized) =>
       \A i \in KeyedMembers :
         EncodedWith(target.props[i],
                     IF target.props[i].optional THEN "encodeIfPresent" ELSE "encode")
  /\ (IsRecordOrClass /\ InitSynthesized) =>
       \A i \in KeyedMembers :
         IF target.props[i].isLet /\ target.props[i].dflt = "parent"
         THEN NotDecoded(target.props[i])
         ELSE DecodedWith(target.props[i],
                          IF target.props[i].optional THEN "decodeIfPresent" ELSE "decode")
  /\ MissingOptionalYieldsNone

C13_Witness ==
  /\ TripDone
  /\ target.kind = "struct"
  /\ KeyedMembers = {1, 2}
  /\ target.props[1].optional
  /\ target.props[2].isLet
  /\ KeyEnum.implicit
  /\ EncodedWith(target.props[1], "encodeIfPresent")
  /\ DecodedWith(target.props[1], "decodeIfPresent")
  /\ EncodedWith(target.props[2], "encode")
  /\ NotDecoded(target.props[2])
  /\ ~HasKey(bodies.trip.stored, "x")
  /\ ~bodies.trip.threw
  /\ Decoded[1] = None

IsSuperInitFrom(st) ==
  /\ st.op = "super.init(from:)"
  /\ st.subject = "container.superDecoder()"
  /\ st.try

IsSuperEncode(st) ==
  /\ st.op = "super.encode(to:)"
  /\ st.subject = "container.superEncoder()"
  /\ st.try

HasDecodableSuperclass == target.kind = "class" /\ target.super.has /\ target.super.confDec

HasEncodableSuperclass == target.kind = "class" /\ target.super.has /\ target.super.confEnc

\* C14 as stated: the call of the superclass is the first statement of the
\* synthesized init(from:) body of a class with a Decodable superclass, and
\* of the synthesized encode body of a class with an Encodable superclass.
C14_SuperCallFirst ==
  /\ (HasDecodableSuperclass /\ InitSynthesized) =>
       (Len(InitBody) >= 1 /\ IsSuperInitFrom(InitBody[1]))
  /\ (HasEncodableSuperclass /\ EncodeSynthesized) =>
       (Len(EncodeBody) >= 1 /\ IsSuperEncode(EncodeBody[1]))

\* C14 amended: the call of the superclass is made once, at the end of the
\* body; in the encode body the binding and the declaration of `container`
\* always come before it, and in the init(from:) body it is the first
\* statement only when the key enum has no cases and the body is that call
\* alone.
C14_SuperCallOnceAtTheEnd ==
  /\ (HasDecodableSuperclass /\ InitSynthesized) =>
       /\ {i \in 1..Len(InitBody) : InitBody[i].op = "super.init(from:)"} = {Len(InitBody)}
       /\ IsSuperInitFrom(InitBody[Len(InitBody)])
       /\ Len(InitBody) = 1 <=> KeyEnum.cases = <<>>
  /\ (HasEncodableSuperclass /\ EncodeSynthesized) =>
       /\ {i \in 1..Len(EncodeBody) : EncodeBody[i].op = "super.encode(to:)"}
            = {Len(EncodeBody)}
       /\ IsSuperEncode(EncodeBody[Len(EncodeBody)])
       /\ Len(EncodeBody) >= 3

C14_Witness ==
  /\ HasDecodableSuperclass
  /\ HasEncodableSuperclass
  /\ InitSynthesized
  /\ EncodeSynthesized
  /\ KeyEnum.cases = <<>>
  /\ Len(InitBody) = 1
  /\ IsSuperInitFrom(InitBody[1])
  /\ Len(EncodeBody) = 3
  /\ IsContainerBinding(EncodeBody[1], "encoder", FALSE)
  /\ IsSuperEncode(EncodeBody[3])

MemberStatements(stmts) ==
  {i \in 1..Len(stmts) :
     stmts[i].op \in {"encode", "encodeIfPresent", "decode", "decodeIfPresent"}}

\* C15: the last statement of the synthesized init(from:) body of a class
\* with a Decodable superclass is try super.init(from:
\* container.superDecoder()), after every member assignment; the last
\* statement of the synthesized encode body of a class with an Encodable
\* superclass is try super.encode(to: container.superEncoder()), after
\* every member encode.
C15_SuperCallLast ==
  /\ (HasDecodableSuperclass /\ InitSynthesized) =>
       /\ Len(InitBody) >= 1
       /\ IsSuperInitFrom(InitBody[Len(InitBody)])
       /\ \A i \in MemberStatements(InitBody) : i < Len(InitBody)
  /\ (HasEncodableSuperclass /\ EncodeSynthesized) =>
       /\ Len(EncodeBody) >= 1
       /\ IsSuperEncode(EncodeBody[Len(EncodeBody)])
       /\ \A i \in MemberStatements(EncodeBody) : i < Len(EncodeBody)

C15_Witness ==
  /\ HasDecodableSuperclass
  /\ HasEncodableSuperclass
  /\ InitSynthesized
  /\ EncodeSynthesized
  /\ KeyEnum.cases = <<"x">>
  /\ Len(InitBody) = 4
  /\ InitBody[3].op = "decode"
  /\ IsSuperInitFrom(InitBody[4])
  /\ Len(EncodeBody) = 4
  /\ EncodeBody[3].op = "encode"
  /\ IsSuperEncode(EncodeBody[4])

\* The case of the encoded union value.
OriginalCase == target.cases[Original[1]]

AllLabeledAndCovered(c) ==
  \A j \in 1..Len(c.params) :
    c.params[j].name # "" /\ c.params[j].name \in Range(CaseKeyEnum(c).cases)

\* C12: for a tagged-union value whose case has a key in the outer
\* CodingKeys and whose parameters are all labeled and covered by
\* CodingKeys_<case>, or whose case has an unnamed parameter, encode(to:)
\* followed by init(from:) does not throw and reproduces the case and its
\* payloads in their positions, none in an optional parameter included.
C12_UnionRoundTrip ==
  (/\ TripDone
   /\ target.kind = "enum"
   /\ OriginalCase.name \in Range(KeyEnum.cases)
   /\ hasAnyUnnamedParameters(OriginalCase) \/ AllLabeledAndCovered(OriginalCase))
    => (~bodies.trip.threw /\ Decoded = Original)

(***************************************************************************)
(* Properties of the order of the gate and of what a failed step leaves.   *)
(***************************************************************************)
NominalKinds == {"struct", "class", "enum"}

\* C24: the gate of a Decodable derivation runs the check of the kind of the
\* target, of the name of the requirement and of the context before it
\* opens the transaction, then the superclass check, then classification,
\* then synthesis; when the superclass check fails, neither classification
\* nor synthesis runs: the members of the target are unchanged and nothing
\* but the diagnostic of the superclass check follows the two errors posted.
C24_SuperCheckFailureStopsTheGate ==
  (Called /\ last.proto = Decodable) =>
    /\ target.kind \notin NominalKinds => (Committed = <<>> /\ ~last.r.opened)
    /\ (target.kind \in NominalKinds /\ last.requirement # Id_init) =>
         /\ Committed = <<Diag("broken_decodable_requirement", last.requirement)>>
         /\ ~last.r.opened
    /\ (target.kind \in NominalKinds /\ last.requirement = Id_init /\ last.disallowed) =>
         /\ Committed = <<Diag("cannot_synthesize_in_disallowed_context", "conformance")>>
         /\ ~last.r.opened
    /\ Admitted => last.r.opened
    /\ ~last.r.opened => members = last.before
    /\ (Admitted /\ ~last.r.superOK) =>
         /\ members = last.before
         /\ last.r.cls = NoClassification
         /\ ~last.r.synth
         /\ \A i \in 1..Len(AttemptNotes) : AttemptNotes[i].kind \in SuperInitKinds
    /\ last.r.cls # NoClassification => last.r.superOK
    /\ last.r.synth => last.r.cls = NeedsSynthesizedCodingKeys

C24_Witness ==
  /\ Admitted
  /\ last.proto = Decodable
  /\ target.kind = "class"
  /\ ~last.r.superOK
  /\ last.before = <<>>
  /\ members = <<>>
  /\ \E i \in 1..Len(target.props) : target.props[i].ua /\ ~target.props[i].confDec
  /\ Len(AttemptNotes) = 1
  /\ AttemptNotes[1].kind \in SuperInitKinds

(***************************************************************************)
(* Properties of a failed synthesis of the key enums of a tagged union.    *)
(***************************************************************************)
\* The latest call ran the synthesizer for a tagged union and it failed.
UnionSynthesisFailed ==
  /\ Admitted
  /\ target.kind = "enum"
  /\ last.r.synth
  /\ last.r.witness = NoWitness

\* The outer CodingKeys the synthesizer of the latest call worked with: the
\* one declared before the call or else one case per case of the target.
OuterKeysOfCall ==
  LET decls == Declared(last.before, Id_CodingKeys)
  IN IF decls = <<>> THEN {target.cases[i].name : i \in 1..Len(target.cases)}
     ELSE Range(decls[1].cases)

\* The cases the synthesizer makes a CodingKeys_<case> for.
CasesSynthesizedFor ==
  {i \in 1..Len(target.cases) :
     /\ target.cases[i].name \in OuterKeysOfCall
     /\ Declared(last.before, CaseKeyName[target.cases[i].name]) = <<>>
     /\ ~hasAnyUnnamedParameters(target.cases[i])}

\* The parameters of those cases whose type does not conform.
ParametersAtFault ==
  {<<i, j>> \in CasesSynthesizedFor \X (1..MaxParams) :
     /\ j <= Len(target.cases[i].params)
     /\ target.cases[i].params[j].ua
     /\ ~TypeConforms(target.cases[i].params[j], last.proto)}

NonConformingNotes ==
  {k \in 1..Len(AttemptNotes) :
     AttemptNotes[k].kind = "codable_non_conforming_property_here"}

\* C28: when the synthesizer fails for a tagged union, no key enum it
\* created stays installed: the members of the target are those before the
\* call, and the other protocol classifies the target as it would have
\* before the call.
C28_FailedUnionSynthesisInstallsNothing ==
  UnionSynthesisFailed =>
    /\ members = last.before
    /\ \A proto \in Protocols :
         classifyCodingKeys(target, members, proto).cls
           = classifyCodingKeys(target, last.before, proto).cls

\* C29: when the synthesizer fails for a tagged union, every parameter whose
\* type does not conform has its own diagnostic, in whichever case and at
\* whichever position it stands.
C29_EveryNonConformingParameterDiagnosed ==
  UnionSynthesisFailed =>
    Cardinality(NonConformingNotes) = Cardinality(ParametersAtFault)

(***************************************************************************)
(* Properties of the order of the member-level diagnostics.                *)
(***************************************************************************)
\* The position in declaration order of the stored property a diagnostic is
\* at; 0 when it is at no stored property.
DeclarationIndex(at) ==
  LET is == {i \in 1..Len(target.props) :
               target.props[i].name = at \/ UserVisibleName(target.props[i]) = at}
  IN IF is = {} THEN 0 ELSE CHOOSE i \in is : \A k \in is : i <= k

\* The diagnostics of the latest attempt that are at a stored property (one
\* for an extraneous key is at the case of the key enum).
MemberNoteKinds ==
  {"codable_non_conforming_property_here", "codable_non_decoded_property_here"}

MemberNotes ==
  SelectSeq(AttemptNotes, LAMBDA d : d.kind \in MemberNoteKinds /\ DeclarationIndex(d.at) # 0)

\* The stored properties of a record the latest attempt had to reject: those
\* the key enum in force names whose type does not conform.
MembersAtFault ==
  LET decls == Declared(last.before, Id_CodingKeys)
  IN {i \in 1..Len(target.props) :
        /\ target.props[i].ua
        /\ ~TypeConforms(target.props[i], last.proto)
        /\ (decls # <<>> /\ decls[1].kind = "enum" /\ decls[1].conformsCK)
              => UserVisibleName(target.props[i]) \in Range(decls[1].cases)
        /\ (decls # <<>> => (decls[1].kind = "enum" /\ decls[1].conformsCK))}

\* C23: within one attempt the diagnostics at members come in the order in
\* which the members are declared, whatever the order of the cases of a
\* key enum the user declared, and every member at fault has one; for a
\* tagged union every parameter at fault of a case the synthesizer handles
\* has one.
C23_MemberNotesInDeclarationOrder ==
  /\ (Admitted /\ target.kind \in {"struct", "class"} /\ last.r.superOK) =>
       /\ \A i, k \in 1..Len(MemberNotes) :
            i < k => DeclarationIndex(MemberNotes[i].at) <= DeclarationIndex(MemberNotes[k].at)
       /\ \A m \in MembersAtFault :
            \E i \in 1..Len(MemberNotes) : DeclarationIndex(MemberNotes[i].at) = m
  /\ UnionSynthesisFailed =>
       \A ij \in ParametersAtFault :
         \E k \in NonConformingNotes :
           AttemptNotes[k].at = target.cases[ij[1]].params[ij[2]].name

(***************************************************************************)
(* Properties of the bodies of records and classes.                        *)
(***************************************************************************)
\* A member that is immutable and has an initial value.
IsLetWithInitialValue(p) == p.isLet /\ p.dflt = "parent"

WarnedNotDecoded(p) ==
  \E i \in 1..Len(bodies.init.diags) :
    bodies.init.diags[i] = Diag("decodable_property_will_not_be_decoded", p.name)

\* The other members named by the keys are decoded.
OthersDecoded ==
  \A i \in KeyedMembers :
    ~IsLetWithInitialValue(target.props[i]) =>
      DecodedWith(target.props[i],
                  IF target.props[i].optional THEN "decodeIfPresent" ELSE "decode")

\* C22 as stated: in the synthesized init(from:) body of a record or class,
\* a member named by a key that is immutable and has an initial value gets
\* no decode assignment and a warning that it will not be decoded, whether
\* CodingKeys is synthesized or declared by the user and whether or not the
\* type is Encodable too; the other members are decoded all the same.
C22_LetWithInitialValueWarned ==
  (IsRecordOrClass /\ InitSynthesized) =>
    /\ \A i \in KeyedMembers :
         IsLetWithInitialValue(target.props[i]) =>
           (NotDecoded(target.props[i]) /\ WarnedNotDecoded(target.props[i]))
    /\ OthersDecoded

\* C22 amended: such a member gets no decode assignment; the warning is
\* emitted when CodingKeys is synthesized, and when it is declared by the
\* user only if the type is not Encodable too and CodingKeys has a case of
\* the member's own name; the other members are decoded all the same.
C22_LetWithInitialValueWarnedUnlessExplicit ==
  (IsRecordOrClass /\ InitSynthesized) =>
    /\ \A i \in KeyedMembers :
         IsLetWithInitialValue(target.props[i]) =>
           /\ NotDecoded(target.props[i])
           /\ WarnedNotDecoded(target.props[i])
                <=> \/ KeyEnum.implicit
                    \/ /\ Encodable \notin target.conforms
                       /\ lookupEnumCase(KeyEnum, target.props[i].name)
    /\ \A i \in 1..Len(bodies.init.diags) :
         bodies.init.diags[i].kind = "decodable_property_will_not_be_decoded" =>
           \E k \in KeyedMembers :
             /\ IsLetWithInitialValue(target.props[k])
             /\ bodies.init.diags[i].at = target.props[k].name
    /\ OthersDecoded

C22_Witness ==
  /\ target.kind = "struct"
  /\ InitSynthesized
  /\ ~KeyEnum.implicit
  /\ KeyEnum.cases = <<"y", "x">>
  /\ Encodable \notin target.conforms
  /\ Len(target.props) = 2
  /\ IsLetWithInitialValue(target.props[1])
  /\ ~IsLetWithInitialValue(target.props[2])
  /\ NotDecoded(target.props[1])
  /\ WarnedNotDecoded(target.props[1])
  /\ DecodedWith(target.props[2], "decode")

\* The statements of a body that name a declaration no lookup found.
Unresolved(stmts) == {i \in 1..Len(stmts) : stmts[i].subject = Garbage}

\* C26: for a record or class that got a witness, every case of CodingKeys
\* names a stored property of the target, the reserved case super
\* included, so that the body builders find a variable for every case they
\* iterate over and never reach the unreachable end of the lookup.
C26_EveryKeyNamesAMember ==
  IsRecordOrClass =>
    /\ (HasWitness(Witness_encode) \/ HasWitness(Witness_init)) =>
         \A k \in 1..Len(KeyEnum.cases) :
           lookupVarDeclForCodingKeysCase(target, KeyEnum.cases[k]).found
    /\ bodies.encode.built => (bodies.encode.ok /\ Unresolved(EncodeBody) = {})
    /\ bodies.init.built => Unresolved(InitBody) = {}

\* A statement that uses the variable `container`.
UsesContainer(st) ==
  \/ st.on = "container"
  \/ st.subject \in {"container.superDecoder()", "container.superEncoder()"}
  \/ st.op = "switch"

\* C27: in every synthesized init(from:) body a statement that uses
\* `container` comes after the statement that binds it; so the body of a
\* class with a Decodable superclass and an empty CodingKeys does not call
\* super.init(from: container.superDecoder()) without the binding.
C27_ContainerBoundBeforeUse ==
  InitSynthesized =>
    \A i \in 1..Len(InitBody) :
      UsesContainer(InitBody[i]) =>
        \E k \in 1..(i - 1) : IsContainerBinding(InitBody[k], "decoder", TRUE)

\* The superclass of the target is not Decodable, so that init(from:) has
\* to call its zero-argument initializer.
CallsZeroArgumentSuperInit ==
  target.kind = "class" /\ target.super.has /\ ~target.super.confDec

SuperInitStatements == {i \in 1..Len(InitBody) : InitBody[i].op = "super.init()"}

KeyedCases(forInit) ==
  {i \in 1..Len(target.cases) :
     /\ lookupEnumCase(KeyEnum, target.cases[i].name)
     /\ ~hasAnyUnnamedParameters(target.cases[i])
     /\ forInit => target.cases[i].params # <<>>}

\* The parameters of case i that have no case in CodingKeys_<case>.
ParametersWithoutKey(i) ==
  {j \in 1..Len(target.cases[i].params) :
     ~lookupEnumCase(CaseKeyEnum(target.cases[i]), target.cases[i].params[j].name)}

\* The arguments of the case constructions of a synthesized init body.
InitArms == IF InitBody = <<>> THEN <<>> ELSE InitBody[Len(InitBody)].arms

ArgumentsFrom(source) ==
  {<<i, k, j>> \in (1..Len(InitArms)) \X (1..3) \X (1..MaxParams) :
     /\ k <= Len(InitArms[i].stmts)
     /\ InitArms[i].stmts[k].op = "assign"
     /\ j <= Len(InitArms[i].stmts[k].args)
     /\ InitArms[i].stmts[k].args[j].source = source}

\* C21: for a tagged union that got the witness init(from:), every
\* parameter the body builder has no key for, and so substitutes the default
\* expression for, has a default expression, whether CodingKeys_<case> was
\* declared by the user or installed by an earlier derivation, successful
\* or failed; so the assertion of the builder holds and no argument of a
\* case construction is left without a value.
C21_DefaultSubstitutedOnlyWhenPresent ==
  (target.kind = "enum" /\ HasWitness(Witness_init)) =>
    /\ \A i \in KeyedCases(TRUE) :
         \A j \in ParametersWithoutKey(i) : target.cases[i].params[j].hasDefault
    /\ bodies.init.built => (bodies.init.ok /\ ArgumentsFrom(Garbage) = {})

C21_Witness ==
  /\ target.kind = "enum"
  /\ InitSynthesized
  /\ ~HasWitness(Witness_encode)
  /\ \E i \in 1..Len(diags) : diags[i].kind = "codable_non_conforming_property_here"
  /\ \E i \in KeyedCases(TRUE) :
       /\ CaseKeyEnum(target.cases[i]).implicit
       /\ ParametersWithoutKey(i) # {}
  /\ ArgumentsFrom("default") # {}

\* C30: a target that got a witness has a CodingKeys enum, so the body
\* builders find it; for a tagged union every case the encode builder opens
\* a keyed nested container for, and every such case with parameters for
\* the init builder, has a CodingKeys_<case> enum, so that no builder stops
\* at a missing key enum.
C30_KeyEnumsExistForTheBuilders ==
  /\ (HasWitness(Witness_encode) \/ HasWitness(Witness_init)) => KeyEnum # NoDecl
  /\ (target.kind = "enum" /\ HasWitness(Witness_encode)) =>
       \A i \in KeyedCases(FALSE) : CaseKeyEnum(target.cases[i]) # NoDecl
  /\ (target.kind = "enum" /\ HasWitness(Witness_init)) =>
       \A i \in KeyedCases(TRUE) : CaseKeyEnum(target.cases[i]) # NoDecl
  /\ (target.kind = "enum" /\ bodies.encode.built) => bodies.encode.ok
  /\ (target.kind = "enum" /\ bodies.init.built) => bodies.init.ok

C30_Witness ==
  /\ target.kind = "enum"
  /\ EncodeSynthesized
  /\ InitSynthesized
  /\ Len(target.cases) = 2
  /\ KeyedCases(FALSE) = {1, 2}
  /\ KeyedCases(TRUE) = {1}
  /\ ~CaseKeyEnum(target.cases[1]).implicit
  /\ CaseKeyEnum(target.cases[2]).implicit

====
